---- MODULE Spec2Model ----
(***************************************************************************)
(* Joshua: ensemble registry, run claim / heartbeat / steal protocol and   *)
(* result sink of joshua_model.py, driven by the agent loop of             *)
(* joshua_agent.py, over one ensemble id.                                  *)
(*                                                                         *)
(* The key-value store is serializable: a transaction whose reads are all  *)
(* ordinary reads is one atomic step.  The two transactions that read at   *)
(* snapshot isolation (should_run_ensemble when it steals, _insert_results *)
(* when it reads the counters) are split into the step that takes the read *)
(* version and the step that commits; a commit is refused, and the         *)
(* function body re-run, when a key of its read-conflict set was written   *)
(* in between.                                                             *)
(***************************************************************************)
EXTENDS Integers, FiniteSets, Sequences, TLC

\* ------------------------------------------------------------------ bounds
\* the clock advances in steps of ClockStep seconds, up to MaxTime
ClockStep == 10
MaxTime == 20
\* no run is started once `started` has reached MaxStarted
MaxStarted == 2
\* the same, where one of the claims is the one of a dead agent
MaxStartedDead == 3
\* number of registry calls (stop / resume) of the users while agents run
MaxUserOps == 2

\* the live agents, each its own process
Agents == {"a1", "a2"}
\* the values random.getrandbits(63) is drawn from
Seeds == {1, 2}
\* the <<max_runs, fail_fast>> properties given to create_ensemble
Configs == {<<0, 0>>, <<1, 0>>, <<2, 2>>}

\* ------------------------------------------------------- program constants
\* should_run_ensemble: a heartbeat older than this many seconds is dead
HeartbeatTimeout == 10

\* a key that is not in the store
NoOwner == "none"
Absent == -1

\* joshua_model.instanceid: one per process
instanceid(a) == IF a = "a1" THEN "i1" ELSE IF a = "a2" THEN "i2" ELSE "i0"

\* joshua_model.get_hostname()
get_hostname(a) == IF a = "a1" THEN "h1" ELSE IF a = "a2" THEN "h2" ELSE "h0"

VARIABLES
    now,        \* time.time()
    all,        \* ensembles/all/<EID> sentinel key exists
    props,      \* ensembles/all/<EID>/properties/*
    counts,     \* ensembles/all/<EID>/count/*
    active,     \* ensembles/active/<EID> exists
    sanity,     \* ensembles/sanity/<EID> exists
    changes,    \* change counters of the two indexes
    incomplete, \* ensembles/incomplete/<EID>/<seed>, /<seed>/began_at (present or not), /<seed>/hostname, /heartbeat/<seed>
    results,    \* rows of results/pass/<EID> and results/fail/<EID>, in commit order
    large,      \* seeds with a blob under results/large/<EID>/<seed>
    userOps,    \* registry calls made so far
    pc,         \* where each worker thread is
    run,        \* the run a worker is executing: seed, sanity flag, cancel flag, retcode, properties
    txn,        \* the snapshot transaction a worker has in flight
    claimed,    \* history: how many times try_starting_test created the claim of each seed
    watch,      \* per index, the list and the future an agent got from list_and_watch
    tail,       \* the generator of a tail_results call: cursor, records yielded, watches
    blob,       \* a blob subspace with the file written into it and the file read back
    stop_file,  \* per agent, the stop_file argument of agent() and whether the file exists
    failures,   \* the entries under /failures: timestamp and hostname
    timer,      \* per agent, the two timeouts of agent() and the seconds since start and idle_start
    pool,       \* start_agents.py: the manager's arguments and locals, children, the worker threads, mutex, stop-file
    needed,     \* a call of determine_agents_needed: its inputs and what it returned
    pick        \* agent(): ensembles_can_run with their properties and counters, random.random(), buckets, chosen_ensemble

storeVars == <<all, props, counts, active, sanity, changes, incomplete, results, large>>
agentVars == <<pc, run, txn>>
vars == <<now, all, props, counts, active, sanity, changes, incomplete, results, large,
          userOps, pc, run, txn, claimed, watch, tail, blob, stop_file, failures, timer, pool, needed, pick>>

\* ------------------------------------------------------------ empty values
\* the worker threads the manager can start: the values of nextAgentId
MaxWorkers == 3
Workers == 1..MaxWorkers
NoProps == [max_runs |-> 0, fail_fast |-> 0, stopped |-> Absent]
NoCounts == [started |-> 0, ended |-> 0, pass |-> 0, fail |-> 0]
NoClaim == [owner |-> NoOwner, began_at |-> FALSE, hostname |-> NoOwner, heartbeat |-> Absent]
NoRun == [seed |-> 0, san |-> FALSE, cancelled |-> FALSE, code |-> 0,
          retried |-> FALSE, max_runs |-> 0, fail_fast |-> 0]
NoTxn == [kind |-> "none", seed |-> 0, stopFF |-> FALSE, stopMR |-> FALSE, conflict |-> FALSE]
NoWrites == [all |-> FALSE, idxA |-> FALSE, idxS |-> FALSE, inc |-> {}, hb |-> {}]
NoWatch == [set |-> FALSE, ensembles |-> FALSE, seen |-> 0]
NoTail == [called |-> FALSE, errors_only |-> FALSE, compressed |-> FALSE,
           begin_versionstamp |-> 0, yielded |-> <<>>, more |-> FALSE,
           watches |-> FALSE, ended |-> 0, active |-> FALSE]
NoBlob == [file |-> <<>>, subspace |-> <<>>, offset |-> 0, written |-> FALSE,
           output |-> <<>>, read_offset |-> 0, read |-> FALSE, raised |-> FALSE]
\* agent(stop_file=None): no agent has a stop-file
NoStopFile == [a \in Agents |-> "None"]
\* agent(agent_timeout=None, agent_idle_timeout=None): None is -1; start and
\* idle_start are kept as the seconds that have passed since them
\* start_agents.py before manage_agents is called: children = {}, agents_desired = 0,
\* joshua_agent.stop_agent = False, no thread, the mutex free, no STOP_AGENTS file
NoPool == [pc |-> "tick", total_cpus |-> 0, max_agents |-> 0, free_cpus |-> 0, growth_rate |-> 100,
           death_wait |-> 1, max_death_wait |-> 0,
           children |-> {}, threads |-> [w \in Workers |-> "none"], nextAgentId |-> 1,
           to_create |-> 0, agents_desired |-> 0, stop_agent |-> FALSE, stop_processed |-> FALSE,
           death_cycles |-> 0, mutex |-> "free", stopfile |-> FALSE]
\* agent() before it picks: no list, no choice
NoPick == [ensembles_can_run |-> <<>>, random |-> 0, buckets |-> <<>>, chosen_ensemble |-> 0]
\* no call of determine_agents_needed
NoNeeded == [current_agents |-> 0, max_agents |-> 0, free_cpus |-> 0, total_cpus |-> 0,
             load |-> 0, growth_rate |-> 100, returned |-> FALSE, agents_needed |-> 0]
NoTimer == [a \in Agents |-> [agent_timeout |-> -1, agent_idle_timeout |-> -1,
                              since_start |-> 0, since_idle |-> 0]]

\* exit codes a run can end with: pass, fail, cancelled
RetCodes == {0, 1, -1}
\* e.code of a non-retryable FDBError (transaction_timed_out)
FDBErrorCodes == {1031}

\* get_dir_changes: the index the sanity flag selects
get_dir_changes(x) == IF x THEN sanity ELSE active

\* joshua_model.open() on an empty database
InitRegistry ==
    /\ now = 0
    /\ all = FALSE
    /\ props = NoProps
    /\ counts = NoCounts
    /\ active = FALSE
    /\ sanity = FALSE
    /\ changes = [active |-> 0, sanity |-> 0]
    /\ incomplete = [s \in Seeds |-> NoClaim]
    /\ results = <<>>
    /\ large = {}
    /\ userOps = 0
    /\ pc = [a \in Agents |-> "loop"]
    /\ run = [a \in Agents |-> NoRun]
    /\ txn = [a \in Agents |-> NoTxn]
    /\ claimed = [s \in Seeds |-> 0]
    /\ watch = [x \in BOOLEAN |-> NoWatch]
    /\ failures = {}
    /\ tail = NoTail /\ blob = NoBlob /\ stop_file = NoStopFile /\ timer = NoTimer /\ pool = NoPool /\ needed = NoNeeded /\ pick = NoPick

\* the database after create_ensemble(userid, {max_runs: c[1], fail_fast: c[2]}, tarball)
Created(c) ==
    /\ now = 0
    /\ all = TRUE
    /\ props = [NoProps EXCEPT !.max_runs = c[1], !.fail_fast = c[2]]
    /\ counts = NoCounts
    /\ active = TRUE
    /\ sanity = FALSE
    /\ changes = [active |-> 1, sanity |-> 0]
    /\ incomplete = [s \in Seeds |-> NoClaim]
    /\ results = <<>>
    /\ large = {}
    /\ userOps = 0
    /\ pc = [a \in Agents |-> "loop"]
    /\ run = [a \in Agents |-> NoRun]
    /\ txn = [a \in Agents |-> NoTxn]
    /\ claimed = [s \in Seeds |-> 0]
    /\ watch = [x \in BOOLEAN |-> NoWatch]
    /\ failures = {}

\* no tail_results call is made
Init == tail = NoTail /\ blob = NoBlob /\ stop_file = NoStopFile /\ timer = NoTimer /\ pool = NoPool /\ needed = NoNeeded /\ pick = NoPick /\ \E c \in Configs : Created(c)

\* --------------------------------------------------- transaction conflicts
\* should_run_ensemble with its read conflict key left out
steal_reads_nothing(b, W) == FALSE
\* should_run_ensemble: the only read conflict of a steal is the key it adds,
\* add_read_conflict_key(heartbeat/<max_seed>); W writes it
steal_reads(b, W) == txn[b].seed \in W.hb

\* _insert_results reading the claim key of its seed at snapshot isolation
insert_reads_no_claim(b, W) ==
    \/ (run[b].san /\ W.idxS)
    \/ (~run[b].san /\ W.idxA)
    \/ ((txn[b].stopFF \/ txn[b].stopMR) /\ W.all)
\* _insert_results: its ordinary reads are the index entry and the claim key of
\* its seed, and in _stop_ensemble the all/ sentinel; W writes one of them
insert_reads(b, W) ==
    \/ (run[b].san /\ W.idxS)
    \/ (~run[b].san /\ W.idxA)
    \/ run[b].seed \in W.inc
    \/ ((txn[b].stopFF \/ txn[b].stopMR) /\ W.all)

\* the in-flight transaction of worker b has read a key that W writes
ReadHit(b, W) ==
    CASE txn[b].kind = "steal" -> steal_reads(b, W)
      [] txn[b].kind = "insert" -> insert_reads(b, W)
      [] OTHER -> FALSE

\* the transactions in flight after worker a (or a user) committed the writes W
Committed(a, mine, W) ==
    [b \in Agents |->
        IF b = a THEN mine
        ELSE IF ReadHit(b, W) THEN [txn[b] EXCEPT !.conflict = TRUE]
        ELSE txn[b]]

\* ---------------------------------------------------------------- registry
\* a transaction that leaves the change counter alone
changed_unbumped(x, n) == changes
\* tr.add(changes, ONE), n times, on the change counter get_dir_changes selects
changed(x, n) ==
    IF x THEN [changes EXCEPT !.sanity = @ + n] ELSE [changes EXCEPT !.active = @ + n]

\* _create_ensemble writing over an ensemble that exists
already_created_ignored == FALSE
\* _create_ensemble: tr[dir_all_ensembles[ensemble_id]] != None
already_created == all

\* _create_ensemble(ensemble_id, properties, sanity)
create_ensemble(x, mr, ff) ==
    /\ userOps' = userOps + 1
    /\ IF already_created
         THEN UNCHANGED <<all, props, active, sanity, changes, txn>>
         ELSE /\ all' = TRUE
              /\ props' = [props EXCEPT !.max_runs = mr, !.fail_fast = ff]
              /\ active' = IF x THEN active ELSE TRUE
              /\ sanity' = IF x THEN TRUE ELSE sanity
              /\ changes' = changed(x, 1)
              /\ txn' = Committed("user", NoTxn,
                                  [NoWrites EXCEPT !.all = TRUE, !.idxA = ~x, !.idxS = x])
    /\ UNCHANGED <<now, watch, tail, blob, stop_file, failures, timer, pool, needed, pick, counts, incomplete, results, large, pc, run, claimed>>

\* _stop_ensemble: the `stopped` property is written when the ensemble is in the index
StoppedProps(p, inIndex) == IF inIndex THEN [p EXCEPT !.stopped = now] ELSE p

\* _stop_ensemble: what it writes
StopWrites(x) == [NoWrites EXCEPT !.idxA = ~x, !.idxS = x, !.inc = Seeds, !.hb = Seeds]

\* stop_ensemble(ensemble_id, sanity); it raises when all/<EID> is absent
stop_ensemble(x) ==
    /\ userOps' = userOps + 1
    /\ all
    /\ props' = StoppedProps(props, get_dir_changes(x))
    /\ active' = IF x THEN active ELSE FALSE
    /\ sanity' = IF x THEN FALSE ELSE sanity
    /\ incomplete' = [s \in Seeds |-> NoClaim]
    /\ changes' = changed(x, 1)
    /\ txn' = Committed("user", NoTxn, StopWrites(x))
    /\ UNCHANGED <<now, watch, tail, blob, stop_file, failures, timer, pool, needed, pick, all, counts, results, large, pc, run, claimed>>

\* resume_ensemble taking the index entry for absent whatever it reads
resume_returns_always(x) == TRUE
\* resume_ensemble: the value it returns, tr[dir[ensemble_id]] == None
resume_returns(x) == ~get_dir_changes(x)

\* resume_ensemble(ensemble_id, sanity); it raises when all/<EID> is absent
resume_ensemble(x) ==
    /\ userOps' = userOps + 1
    /\ all
    /\ IF resume_returns(x)
         THEN /\ active' = IF x THEN active ELSE TRUE
              /\ sanity' = IF x THEN TRUE ELSE sanity
              /\ changes' = changed(x, 1)
              /\ txn' = Committed("user", NoTxn, [NoWrites EXCEPT !.idxA = ~x, !.idxS = x])
         ELSE UNCHANGED <<active, sanity, changes, txn>>
    /\ UNCHANGED <<now, watch, tail, blob, stop_file, failures, timer, pool, needed, pick, all, props, counts, incomplete, results, large, pc, run, claimed>>

\* delete_ensemble(ensemble_id, sanity) and _delete_ensemble_data
delete_ensemble(x) ==
    /\ userOps' = userOps + 1
    /\ IF ~all
         THEN UNCHANGED <<all, props, counts, active, sanity, changes, results, large, txn>>
         ELSE /\ large' = {}
              /\ results' = <<>>
              /\ active' = IF x THEN active ELSE FALSE
              /\ sanity' = IF x THEN FALSE ELSE sanity
              /\ all' = FALSE
              /\ props' = NoProps
              /\ counts' = NoCounts
              /\ changes' = changed(x, 1)
              /\ txn' = Committed("user", NoTxn,
                                  [NoWrites EXCEPT !.all = TRUE,
                                                   !.idxA = ~x /\ active,
                                                   !.idxS = x /\ sanity])
    /\ UNCHANGED <<now, watch, tail, blob, stop_file, failures, timer, pool, needed, pick, incomplete, pc, run, claimed>>

\* the change counter of the index the flag x selects
changes_of(x) == IF x THEN changes.sanity ELSE changes.active

\* Future.is_ready() of the watch on the change counter: its value is no
\* longer the one the transaction of list_and_watch read
is_ready(x) == watch[x].set /\ changes_of(x) # watch[x].seen

\* agent(): if (not watch) or watch.is_ready(): list_and_watch_active_ensembles()
\* (resp. sanity): one transaction reads the index and sets the watch
list_and_watch_ensembles(x) ==
    /\ ~watch[x].set \/ is_ready(x)
    /\ watch' = [watch EXCEPT ![x] = [set |-> TRUE,
                                       ensembles |-> get_dir_changes(x),
                                       seen |-> changes_of(x)]]
    /\ UNCHANGED <<now, storeVars, userOps, agentVars, claimed, tail, blob, stop_file, failures, timer, pool, needed, pick>>

\* ------------------------------------------------------------------- blobs
\* BLOB_KEY_LIMIT (8192 bytes) and BLOB_TRANSACTION_LIMIT (128 * 1024 bytes),
\* scaled down; MaxFile is the longest file written
BLOB_KEY_LIMIT == 2
BLOB_TRANSACTION_LIMIT == 4
MaxFile == 9
Bytes == {0, 1}
Files == UNION {[1..n -> Bytes] : n \in 0..MaxFile}

min(x, y) == IF x <= y THEN x ELSE y

\* data[lo:hi]
slice(data, lo, hi) == SubSeq(data, lo + 1, min(hi, Len(data)))

\* a writer that keys a chunk by its offset in the transaction's data
chunk_key_relative(offset, rel_offs) == rel_offs
\* _insert_blobpart: subspace[offset + rel_offs]
chunk_key(offset, rel_offs) == offset + rel_offs

\* _insert_blobpart: one transaction sets a key for every BLOB_KEY_LIMIT bytes of data
_insert_blobpart(subspace, offset, data) ==
    LET range == {rel_offs \in 0..(min(BLOB_TRANSACTION_LIMIT, Len(data)) - 1) :
                     rel_offs % BLOB_KEY_LIMIT = 0}
        keys == {chunk_key(offset, rel_offs) : rel_offs \in range}
    IN  [k \in DOMAIN subspace \cup keys |->
            IF k \in keys
            THEN LET rel_offs == CHOOSE r \in range : chunk_key(offset, r) = k
                 IN  slice(data, rel_offs, rel_offs + BLOB_KEY_LIMIT)
            ELSE subspace[k]]

\* _insert_blob: file.read(BLOB_TRANSACTION_LIMIT); the loop ends on an empty
\* read, else _insert_blobpart commits the data and offset moves on
_insert_blob_loop ==
    /\ ~blob.written
    /\ LET data == slice(blob.file, blob.offset, blob.offset + BLOB_TRANSACTION_LIMIT)
       IN  blob' = IF data = <<>>
                   THEN [blob EXCEPT !.written = TRUE]
                   ELSE [blob EXCEPT !.subspace = _insert_blobpart(@, blob.offset, data),
                                     !.offset = @ + Len(data)]
    /\ UNCHANGED <<now, storeVars, userOps, agentVars, claimed, watch, tail, stop_file, failures, timer, pool, needed, pick>>

\* _read_blobpart: the keys of the range read, in key order; each must be the
\* key at the running offset (assert); an empty value ends the part
RECURSIVE read_range(_, _, _, _)
read_range(subspace, keys, offset, data) ==
    IF keys = {} THEN [data |-> data, raised |-> FALSE]
    ELSE LET k == CHOOSE x \in keys : \A y \in keys : x <= y
             v == subspace[k]
         IN  IF k # offset THEN [data |-> data, raised |-> TRUE]
             ELSE IF v = <<>> THEN [data |-> data, raised |-> FALSE]
             ELSE read_range(subspace, keys \ {k}, offset + Len(v), data \o v)

\* _read_blobpart: tr[subspace[offset] : subspace[offset + BLOB_TRANSACTION_LIMIT]]
_read_blobpart(subspace, offset) ==
    read_range(subspace,
               {k \in DOMAIN subspace : offset <= k /\ k < offset + BLOB_TRANSACTION_LIMIT},
               offset, <<>>)

\* _read_blob: the loop ends on an empty part, else the part is written to the
\* file and offset moves on; an AssertionError of _read_blobpart ends the call
_read_blob_loop ==
    /\ ~blob.read /\ ~blob.raised
    /\ LET part == _read_blobpart(blob.subspace, blob.read_offset)
       IN  blob' = IF part.raised THEN [blob EXCEPT !.raised = TRUE]
                   ELSE IF part.data = <<>> THEN [blob EXCEPT !.read = TRUE]
                   ELSE [blob EXCEPT !.output = @ \o part.data,
                                     !.read_offset = @ + Len(part.data)]
    /\ UNCHANGED <<now, storeVars, userOps, agentVars, claimed, watch, tail, stop_file, failures, timer, pool, needed, pick>>

\* _read_blob of a subspace that _insert_blob has filled
_read_blob == blob.written /\ _read_blob_loop

\* ------------------------------------------------------------- agent loop
\* agent(): stop_file and os.path.exists(stop_file)
stop_file_exists(a) == stop_file[a] \in {"present", "executable"}

\* agent(): sanity_ensembles = list_and_watch_sanity_ensembles(), then
\* run_ensemble(ensemble, sanity=True) for an ensemble of the list
agent_sanity(a) ==
    /\ pc[a] = "loop"
    /\ ~stop_file_exists(a)
    /\ sanity
    /\ pc' = [pc EXCEPT ![a] = "start"]
    /\ run' = [run EXCEPT ![a] = [NoRun EXCEPT !.san = TRUE]]
    /\ UNCHANGED <<now, watch, tail, blob, stop_file, failures, timer, pool, needed, pick, storeVars, userOps, txn, claimed>>

\* run_ensemble returns r.code to agent()
run_returns(a, r) ==
    /\ pc' = [pc EXCEPT ![a] = "returned"]
    /\ run' = [run EXCEPT ![a] = [NoRun EXCEPT !.seed = r.seed, !.san = r.san, !.code = r.code]]

\* an agent that sees no reason to stop after any exit code
prevents_zombie_never(retcode) == FALSE
\* agent(): if retcode == -1 or retcode == -2
prevents_zombie(retcode) == retcode = -1 \/ retcode = -2

\* agent(): stop_file = sys.executable if stop_file is None; else the file is
\* created if it does not exist
stop_file_created(f) == IF f = "None" THEN "executable" ELSE "present"

\* an agent whose sanity runs may fail
sanity_failed_ignored(retcode) == FALSE
\* agent(): if retcode != 0: raise JoshuaError, after a sanity run
sanity_failed(retcode) == retcode # 0

\* log_agent_failure: the key /failures/<timestamp>/<hostname>/<random>
log_agent_failure(a) == [timestamp |-> now, hostname |-> get_hostname(a)]

\* agent(): a sanity run that did not return 0 raises JoshuaError, which is
\* logged under /failures and ends the agent; after -1 or -2 of another run the
\* stop-file is made to exist and idle_start is reset; then the loop goes on
agent_continue(a) ==
    /\ pc[a] = "returned"
    /\ IF run[a].san
       THEN /\ pc' = [pc EXCEPT ![a] = IF sanity_failed(run[a].code) THEN "exited" ELSE "loop"]
            /\ failures' = IF sanity_failed(run[a].code)
                            THEN failures \cup {log_agent_failure(a)} ELSE failures
            /\ UNCHANGED <<stop_file, timer>>
       ELSE /\ pc' = [pc EXCEPT ![a] = "loop"]
            /\ timer' = [timer EXCEPT ![a].since_idle = 0]
            /\ stop_file' = [stop_file EXCEPT ![a] =
                                 IF prevents_zombie(run[a].code) THEN stop_file_created(@) ELSE @]
            /\ UNCHANGED failures
    /\ run' = [run EXCEPT ![a] = NoRun]
    /\ UNCHANGED <<now, watch, tail, blob, pool, needed, pick, storeVars, userOps, txn, claimed>>

\* agent(): if stop_file and os.path.exists(stop_file): break
agent_break(a) ==
    /\ pc[a] = "loop"
    /\ stop_file_exists(a)
    /\ pc' = [pc EXCEPT ![a] = "exited"]
    /\ UNCHANGED <<now, watch, tail, blob, stop_file, failures, timer, pool, needed, pick, storeVars, userOps, run, txn, claimed>>

\* show_in_progress: one dict per seed that has a heartbeat key or a sub-key
\* under incomplete/<EID>, here the names of the fields the dict gets; the
\* claim key itself (a one-element tuple) adds nothing
show_in_progress ==
    [s \in {t \in Seeds : \/ incomplete[t].heartbeat # Absent
                          \/ incomplete[t].began_at
                          \/ incomplete[t].hostname # NoOwner} |->
        (IF incomplete[s].heartbeat # Absent THEN {"heartbeat", "seed"} ELSE {})
        \cup (IF incomplete[s].began_at THEN {"began_at", "running_for", "seed"} ELSE {})
        \cup (IF incomplete[s].hostname # NoOwner THEN {"hostname", "seed"} ELSE {})]

\* ------------------------------------------------------------- should_run
\* _get_seeds_and_heartbeats: the seeds that have a heartbeat key
HeartbeatSeeds == {s \in Seeds : incomplete[s].heartbeat # Absent}

\* should_run_ensemble: the seed with the largest heartbeat age, the first in
\* key order among equals
max_seed ==
    CHOOSE s \in HeartbeatSeeds :
        \A t \in HeartbeatSeeds :
            \/ incomplete[s].heartbeat < incomplete[t].heartbeat
            \/ (incomplete[s].heartbeat = incomplete[t].heartbeat /\ s <= t)

\* should_run_ensemble presuming dead an agent whose heartbeat is HeartbeatTimeout old
should_run_steals_early ==
    IF props.max_runs > 0 /\ counts.started >= props.max_runs
    THEN IF HeartbeatSeeds = {} THEN "true"
         ELSE IF now - incomplete[max_seed].heartbeat >= HeartbeatTimeout THEN "steal"
         ELSE "false"
    ELSE "true"
\* should_run_ensemble that never presumes an agent dead
should_run_never_steals ==
    IF props.max_runs > 0 /\ counts.started >= props.max_runs
    THEN IF HeartbeatSeeds = {} THEN "true" ELSE "false"
    ELSE "true"
\* should_run_ensemble: "true", "false", or "steal" when it deletes max_seed
should_run_result ==
    IF props.max_runs > 0 /\ counts.started >= props.max_runs
    THEN IF HeartbeatSeeds = {} THEN "true"
         ELSE IF now - incomplete[max_seed].heartbeat > HeartbeatTimeout THEN "steal"
         ELSE "false"
    ELSE "true"

\* should_run_ensemble: the body, run on the snapshot taken now
should_run_body(a) ==
    /\ CASE should_run_result = "true" ->
              /\ pc' = [pc EXCEPT ![a] = "start"]
              /\ txn' = [txn EXCEPT ![a] = NoTxn]
           [] should_run_result = "false" ->
              /\ pc' = [pc EXCEPT ![a] = "sleep"]
              /\ txn' = [txn EXCEPT ![a] = NoTxn]
           [] OTHER ->
              /\ pc' = [pc EXCEPT ![a] = "steal"]
              /\ txn' = [txn EXCEPT ![a] = [NoTxn EXCEPT !.kind = "steal", !.seed = max_seed]]
    /\ UNCHANGED <<now, watch, tail, blob, stop_file, failures, timer, pool, needed, pick, storeVars, userOps, run, claimed>>

\* agent(): ensembles = list_and_watch_active_ensembles(), then
\* filter(joshua_model.should_run_ensemble, ensembles)
should_run_ensemble(a) ==
    /\ pc[a] = "loop"
    /\ ~stop_file_exists(a)
    /\ active
    /\ should_run_body(a)

\* the steal did not commit (the heartbeat key was written): the body runs again
should_run_retry(a) ==
    /\ pc[a] = "steal"
    /\ txn[a].conflict
    /\ should_run_body(a)

\* should_run_ensemble clearing the whole of incomplete/<EID> when it steals
should_run_steal_all(a) ==
    /\ pc[a] = "steal"
    /\ ~txn[a].conflict
    /\ incomplete' = [s \in Seeds |-> NoClaim]
    /\ txn' = Committed(a, NoTxn, [NoWrites EXCEPT !.inc = Seeds, !.hb = Seeds])
    /\ pc' = [pc EXCEPT ![a] = "start"]
    /\ UNCHANGED <<now, watch, tail, blob, stop_file, failures, timer, pool, needed, pick, all, props, counts, active, sanity, changes, results, large,
                   userOps, run, claimed>>

\* should_run_ensemble: the steal commits and deletes the claim of max_seed
should_run_steal(a) ==
    /\ pc[a] = "steal"
    /\ ~txn[a].conflict
    /\ incomplete' = [incomplete EXCEPT ![txn[a].seed] = NoClaim]
    /\ txn' = Committed(a, NoTxn, [NoWrites EXCEPT !.inc = {txn[a].seed}, !.hb = {txn[a].seed}])
    /\ pc' = [pc EXCEPT ![a] = "start"]
    /\ UNCHANGED <<now, watch, tail, blob, stop_file, failures, timer, pool, needed, pick, all, props, counts, active, sanity, changes, results, large,
                   userOps, run, claimed>>

\* agent(): time.sleep(1); continue
agent_sleep(a) ==
    /\ pc[a] = "sleep"
    /\ pc' = [pc EXCEPT ![a] = "loop"]
    /\ UNCHANGED <<now, watch, tail, blob, stop_file, failures, timer, pool, needed, pick, storeVars, userOps, run, txn, claimed>>

\* ------------------------------------------------------ claim and heartbeat
\* try_starting_test claiming without counting the run
count_started_skipped(c) == c
\* try_starting_test: _increment(tr, ensemble_id, "started")
count_started(c) == [c EXCEPT !.started = @ + 1]

\* try_starting_test overwriting the claim it finds
seed_claimed_ignored(seed) == FALSE
\* try_starting_test: tr[dir_ensemble_incomplete[ensemble_id][seed]] != None
seed_claimed(seed) == incomplete[seed].owner # NoOwner

\* try_starting_test claiming a seed of an ensemble that is not in the index
not_in_index_ignored(x) == FALSE
\* try_starting_test: tr[dir[ensemble_id]] == None
not_in_index(x) == ~get_dir_changes(x)

\* try_starting_test answering True whoever holds the claim
is_claimant_always(a, seed) == TRUE
\* try_starting_test: tr[dir_ensemble_incomplete[ensemble_id][seed]] == instanceid
is_claimant(a, seed) == incomplete[seed].owner = instanceid(a)

\* try_starting_test: the body of the transaction; on True _run_ensemble starts
\* and reads the properties of the ensemble, on False run_ensemble returns -3
try_starting_body(a, seed) ==
    /\ IF not_in_index(run[a].san)
         THEN /\ run_returns(a, [run[a] EXCEPT !.seed = seed, !.code = -3])
              /\ UNCHANGED <<counts, incomplete, txn, claimed>>
         ELSE IF seed_claimed(seed)
         THEN /\ IF is_claimant(a, seed)
                   THEN /\ pc' = [pc EXCEPT ![a] = "running"]
                        /\ run' = [run EXCEPT ![a].seed = seed,
                                               ![a].max_runs = props.max_runs,
                                               ![a].fail_fast = props.fail_fast]
                   ELSE run_returns(a, [run[a] EXCEPT !.seed = seed, !.code = -3])
              /\ UNCHANGED <<counts, incomplete, txn, claimed>>
         ELSE /\ counts' = count_started(counts)
              /\ claimed' = [claimed EXCEPT ![seed] = @ + 1]
              /\ incomplete' = [incomplete EXCEPT ![seed] =
                                    [owner |-> instanceid(a), began_at |-> TRUE,
                                     hostname |-> get_hostname(a), heartbeat |-> now]]
              /\ txn' = Committed(a, NoTxn, [NoWrites EXCEPT !.inc = {seed}, !.hb = {seed}])
              /\ pc' = [pc EXCEPT ![a] = "running"]
              /\ run' = [run EXCEPT ![a].seed = seed,
                                     ![a].max_runs = props.max_runs,
                                     ![a].fail_fast = props.fail_fast]
    /\ UNCHANGED <<now, watch, tail, blob, stop_file, failures, timer, pool, needed, pick, all, props, active, sanity, changes, results, large, userOps>>

\* run_ensemble: seed = random.getrandbits(63); try_starting_test(ensemble, seed, sanity)
try_starting_test(a, seed) ==
    /\ pc[a] = "start"
    /\ try_starting_body(a, seed)

\* try_starting_test committed its claim but the client got commit_unknown_result:
\* fdb.transactional will run the function again with the same arguments
try_starting_unknown(a, seed) ==
    /\ pc[a] = "start"
    /\ ~not_in_index(run[a].san)
    /\ ~seed_claimed(seed)
    /\ counts' = count_started(counts)
    /\ claimed' = [claimed EXCEPT ![seed] = @ + 1]
    /\ incomplete' = [incomplete EXCEPT ![seed] =
                          [owner |-> instanceid(a), began_at |-> TRUE,
                           hostname |-> get_hostname(a), heartbeat |-> now]]
    /\ txn' = Committed(a, NoTxn, [NoWrites EXCEPT !.inc = {seed}, !.hb = {seed}])
    /\ pc' = [pc EXCEPT ![a] = "again"]
    /\ run' = [run EXCEPT ![a].seed = seed]
    /\ UNCHANGED <<now, watch, tail, blob, stop_file, failures, timer, pool, needed, pick, all, props, active, sanity, changes, results, large, userOps>>

\* fdb.transactional: try_starting_test runs again for the same seed
try_starting_again(a) ==
    /\ pc[a] = "again"
    /\ try_starting_body(a, run[a].seed)

\* heartbeat_and_check_running not comparing the claim with instanceid
check_running_any_owner(a) == get_dir_changes(run[a].san)
\* heartbeat_and_check_running taking a seed without a claim for its own
check_running_without_claim(a) ==
    /\ get_dir_changes(run[a].san)
    /\ incomplete[run[a].seed].owner \in {instanceid(a), NoOwner}
\* heartbeat_and_check_running: result = the index entry exists and the claim
\* of the seed equals instanceid
check_running(a) ==
    /\ get_dir_changes(run[a].san)
    /\ incomplete[run[a].seed].owner = instanceid(a)

\* run_ensemble: every second while the run's thread is alive,
\* heartbeat_and_check_running(ensemble, seed, sanity), and cancel() when it is false
heartbeat_and_check_running(a) ==
    /\ pc[a] \in {"running", "ins", "blob"}
    /\ IF check_running(a)
         THEN /\ incomplete' = [incomplete EXCEPT ![run[a].seed].heartbeat = now]
              /\ txn' = Committed("none", NoTxn, [NoWrites EXCEPT !.hb = {run[a].seed}])
              /\ UNCHANGED run
         ELSE /\ run' = [run EXCEPT ![a].cancelled = TRUE]
              /\ UNCHANGED <<incomplete, txn>>
    /\ UNCHANGED <<now, watch, tail, blob, stop_file, failures, timer, pool, needed, pick, all, props, counts, active, sanity, changes, results, large,
                   userOps, pc, claimed>>

\* -------------------------------------------------------------- result sink
\* _run_ensemble: the result_code and output the second insert_results call passes
\* are e.code and wrap_error(e.description)
result_code(r) == IF r.retried THEN CHOOSE c \in FDBErrorCodes : TRUE ELSE r.code
\* insert_results: len(output) > BLOB_KEY_LIMIT; cancelled output is empty
\* and a wrapped error is short
spilled(r, big) == big /\ ~r.retried /\ r.code # -1
\* insert_results: the value of the result row
row_output(r, big) == IF r.retried THEN "error" ELSE IF spilled(r, big) THEN "marker" ELSE "out"

\* _insert_results inserting for an ensemble that is not in the index
ensemble_stopped_ignored(x) == FALSE
\* _insert_results: tr[dir[ensemble_id]] == None
ensemble_stopped(x) == ~get_dir_changes(x)

\* _insert_results inserting without looking at the claim
test_completed_ignored(seed) == FALSE
\* _insert_results: tr[dir_ensemble_incomplete[ensemble_id][seed]] == None
test_completed(seed) == incomplete[seed].owner = NoOwner

\* _insert_results that never finds fail_fast reached
fail_fast_never_reached(r) == FALSE
\* _insert_results: result_code and fail_fast > 0 and
\* _get_snap_counter("fail") >= fail_fast, the own increment of fail included
fail_fast_reached(r) ==
    /\ result_code(r) # 0
    /\ r.fail_fast > 0
    /\ counts.fail + 1 >= r.fail_fast

\* _insert_results that never finds max_runs reached
max_runs_never_reached(r) == FALSE
\* _insert_results: max_runs > 0 and _get_snap_counter("ended") >= max_runs,
\* the own increment of ended included
max_runs_reached(r) ==
    /\ r.max_runs > 0
    /\ counts.ended + 1 >= r.max_runs

\* insert_results -> _insert_results: the transaction takes its read version; it
\* returns False at once when the index entry or the claim is absent, else it
\* reads the counters at snapshot isolation (its own increment included)
insert_results(a, r) ==
    IF ensemble_stopped(r.san) \/ test_completed(r.seed)
    THEN /\ run_returns(a, r)
         /\ txn' = [txn EXCEPT ![a] = NoTxn]
    ELSE /\ pc' = [pc EXCEPT ![a] = "ins"]
         /\ run' = [run EXCEPT ![a] = r]
         /\ txn' = [txn EXCEPT ![a] =
                       [NoTxn EXCEPT
                          !.kind = "insert",
                          !.seed = r.seed,
                          !.stopFF = fail_fast_reached(r),
                          !.stopMR = max_runs_reached(r)]]

\* _run_ensemble: the test process ends with retcode (-1 once cancelled, -2 on
\* timeout) and insert_results is called
_run_ensemble(a, retcode) ==
    /\ pc[a] = "running"
    /\ retcode = -1 => run[a].cancelled
    /\ retcode = -2 => ~run[a].cancelled
    /\ insert_results(a, [run[a] EXCEPT !.code = retcode, !.cancelled = FALSE])
    /\ UNCHANGED <<now, watch, tail, blob, stop_file, failures, timer, pool, needed, pick, storeVars, userOps, claimed>>

\* fdb.transactional: the commit was refused, _insert_results runs again
insert_retry(a) ==
    /\ pc[a] = "ins"
    /\ txn[a].conflict
    /\ insert_results(a, run[a])
    /\ UNCHANGED <<now, watch, tail, blob, stop_file, failures, timer, pool, needed, pick, storeVars, userOps, claimed>>

\* _insert_results counting a failed run as a pass as well
count_result_both(c, code) ==
    IF code # 0 THEN [c EXCEPT !.ended = @ + 1, !.fail = @ + 1, !.pass = @ + 1]
    ELSE [c EXCEPT !.ended = @ + 1, !.pass = @ + 1]
\* _insert_results adding two to ended for one run
count_result_twice(c, code) ==
    IF code # 0 THEN [c EXCEPT !.ended = @ + 2, !.fail = @ + 1]
    ELSE [c EXCEPT !.ended = @ + 2, !.pass = @ + 1]
\* _insert_results: _increment "ended", then "fail" if result_code else "pass"
count_result(c, code) ==
    IF code # 0 THEN [c EXCEPT !.ended = @ + 1, !.fail = @ + 1]
    ELSE [c EXCEPT !.ended = @ + 1, !.pass = @ + 1]

\* _insert_results filing the negative exit codes under pass
results_dir_by_sign(code) == IF code > 0 THEN "fail" ELSE "pass"
\* _insert_results: results = dir_ensemble_results_fail if result_code else
\* dir_ensemble_results_pass
results_dir(code) == IF code # 0 THEN "fail" ELSE "pass"

\* _insert_results commits; big: the output is longer than BLOB_KEY_LIMIT
_insert_results(a, big) ==
    /\ pc[a] = "ins"
    /\ ~txn[a].conflict
    /\ LET r == run[a]
           x == r.san
           stop == txn[a].stopFF \/ txn[a].stopMR
           nstops == (IF txn[a].stopFF THEN 1 ELSE 0) + (IF txn[a].stopMR THEN 1 ELSE 0)
       IN  IF stop /\ ~all
           THEN \* _stop_ensemble raises "does not exist": nothing commits, the thread
                \* ends, run_ensemble raises the error and agent() logs it and ends
                /\ pc' = [pc EXCEPT ![a] = "exited"]
                /\ run' = [run EXCEPT ![a] = NoRun]
                /\ txn' = [txn EXCEPT ![a] = NoTxn]
                /\ failures' = failures \cup {log_agent_failure(a)}
                /\ UNCHANGED <<props, counts, active, sanity, changes, incomplete, results>>
           ELSE /\ incomplete' = IF stop THEN [s \in Seeds |-> NoClaim]
                                  ELSE [incomplete EXCEPT ![r.seed] = NoClaim]
                /\ counts' = count_result(counts, result_code(r))
                /\ props' = IF stop THEN StoppedProps(props, get_dir_changes(x)) ELSE props
                /\ active' = IF stop /\ ~x THEN FALSE ELSE active
                /\ sanity' = IF stop /\ x THEN FALSE ELSE sanity
                /\ changes' = changed(x, nstops)
                /\ results' = Append(results,
                                     [dir |-> results_dir(result_code(r)),
                                      code |-> result_code(r),
                                      seed |-> r.seed,
                                      output |-> row_output(r, big)])
                /\ txn' = Committed(a, NoTxn,
                                    IF stop THEN StopWrites(x)
                                    ELSE [NoWrites EXCEPT !.inc = {r.seed}, !.hb = {r.seed}])
                /\ IF spilled(r, big)
                     THEN /\ pc' = [pc EXCEPT ![a] = "blob"]
                          /\ UNCHANGED run
                     ELSE run_returns(a, r)
                /\ UNCHANGED failures
    /\ UNCHANGED <<now, watch, tail, blob, stop_file, timer, pool, needed, pick, all, large, userOps, claimed>>

\* _run_ensemble: _insert_results raised a non-retryable FDBError before it
\* committed; insert_results is called again with the wrapped error
insert_error(a) ==
    /\ pc[a] = "ins"
    /\ ~run[a].retried
    /\ insert_results(a, [run[a] EXCEPT !.retried = TRUE])
    /\ UNCHANGED <<now, watch, tail, blob, stop_file, failures, timer, pool, needed, pick, storeVars, userOps, claimed>>

\* insert_results: _insert_blob writes the output under results/large/<EID>/<seed>
_insert_blob(a) ==
    /\ pc[a] = "blob"
    /\ large' = large \cup {run[a].seed}
    /\ run_returns(a, run[a])
    /\ UNCHANGED <<now, watch, tail, blob, stop_file, failures, timer, pool, needed, pick, all, props, counts, active, sanity, changes, incomplete, results,
                   userOps, txn, claimed>>

\* _run_ensemble: _insert_blob raised an FDBError after the marker row was
\* committed; insert_results is called again with the wrapped error
blob_error(a) ==
    /\ pc[a] = "blob"
    /\ insert_results(a, [run[a] EXCEPT !.retried = TRUE])
    /\ UNCHANGED <<now, watch, tail, blob, stop_file, failures, timer, pool, needed, pick, storeVars, userOps, claimed>>

\* -------------------------------------------------------------- result tail
\* the versionstamp of a row is its place in the commit order
\* _read_results: the versionstamps of the rows of results/<d>/<EID> from
\* begin_versionstamp on, in key order
RECURSIVE _read_results(_, _)
_read_results(d, begin_versionstamp) ==
    IF begin_versionstamp > Len(results) THEN <<>>
    ELSE IF results[begin_versionstamp].dir = d
         THEN <<begin_versionstamp>> \o _read_results(d, begin_versionstamp + 1)
         ELSE _read_results(d, begin_versionstamp + 1)

\* the two ranges read one after the other
chain(s, t) == s \o t
\* heapq.merge of two sorted streams: the smaller head first
RECURSIVE merge(_, _)
merge(s, t) ==
    IF s = <<>> THEN t
    ELSE IF t = <<>> THEN s
    ELSE IF Head(s) <= Head(t) THEN <<Head(s)>> \o merge(Tail(s), t)
    ELSE <<Head(t)>> \o merge(s, Tail(t))

\* _read_and_watch_results: result_stream over result_dirs, [fail] or [fail, pass]
result_stream(errors_only, begin_versionstamp) ==
    IF errors_only THEN _read_results("fail", begin_versionstamp)
    ELSE merge(_read_results("fail", begin_versionstamp),
               _read_results("pass", begin_versionstamp))

\* tail_results: the text yielded for row i; a value_in_blob marker is replaced by
\* what _read_blob finds under results/large/<EID>/<seed> now: the output when
\* the blob is there; when it is not, zlib.decompress fails on the empty string
\* and the marker itself is yielded, or without compression the empty string is
yielded_text(i, compressed) ==
    IF results[i].output # "marker" THEN results[i].output
    ELSE IF results[i].seed \in large THEN "out"
    ELSE IF compressed THEN "marker" ELSE "empty"

\* tail_results(ensemble_id, errors_only, compressed): the generator before its
\* first round, begin_versionstamp = 0 being below every versionstamp
tail_results(errors_only, compressed) ==
    [NoTail EXCEPT !.called = TRUE, !.errors_only = errors_only,
                   !.compressed = compressed, !.begin_versionstamp = 1, !.more = TRUE]

\* tail_results: one round of its loop: _read_and_watch_results returns the
\* first n rows of the stream when the 250 ms are over at the n-th row (cut), or
\* the whole stream, with watches on count/ended and on the active entry unless
\* the ensemble is not in the active index; the block is yielded
_read_and_watch_results(n, cut) ==
    /\ tail.called /\ tail.more /\ ~tail.watches
    /\ LET stream == result_stream(tail.errors_only, tail.begin_versionstamp)
           block == SubSeq(stream, 1, n)
       IN  /\ n <= Len(stream)
           /\ IF cut THEN n >= 1 ELSE n = Len(stream)
           /\ tail' = [tail EXCEPT
                  !.begin_versionstamp = IF n > 0 THEN block[n] + 1 ELSE @,
                  !.yielded = @ \o [j \in 1..n |->
                                       [versionstamp |-> block[j],
                                        text |-> yielded_text(block[j], tail.compressed)]],
                  !.more = cut \/ active,
                  !.watches = ~cut /\ active,
                  !.ended = IF ~cut /\ active THEN counts.ended ELSE @,
                  !.active = IF ~cut /\ active THEN active ELSE @]
    /\ UNCHANGED <<now, storeVars, userOps, agentVars, claimed, watch, blob, stop_file, failures, timer, pool, needed, pick>>

\* a tail that watches count/ended only
watch_fired_on_ended_only == counts.ended # tail.ended
\* _read_and_watch_results: tr.watch(count/ended) or tr.watch(dir_active[ensemble_id])
\* is ready: the key is no longer what the reading transaction saw
watch_fired == counts.ended # tail.ended \/ active # tail.active

\* tail_results: fdb.Future.wait_for_any(*watches) returns
wait_for_any ==
    /\ tail.watches
    /\ watch_fired
    /\ tail' = [tail EXCEPT !.watches = FALSE]
    /\ UNCHANGED <<now, storeVars, userOps, agentVars, claimed, watch, blob, stop_file, failures, timer, pool, needed, pick>>

\* an agent of a third process claims a seed with try_starting_test and is
\* killed: it never heartbeats and never inserts a result
dead_agent(seed) ==
    /\ active
    /\ incomplete[seed].owner = NoOwner
    /\ counts' = count_started(counts)
    /\ incomplete' = [incomplete EXCEPT ![seed] =
                          [owner |-> instanceid("a0"), began_at |-> TRUE,
                           hostname |-> get_hostname("a0"), heartbeat |-> now]]
    /\ claimed' = [claimed EXCEPT ![seed] = @ + 1]
    /\ txn' = Committed("a0", NoTxn, [NoWrites EXCEPT !.inc = {seed}, !.hb = {seed}])
    /\ UNCHANGED <<now, watch, tail, blob, stop_file, failures, timer, pool, needed, pick, all, props, active, sanity, changes, results, large, userOps, pc, run>>

\* time passes
Tick ==
    /\ now + ClockStep <= MaxTime
    /\ now' = now + ClockStep
    /\ UNCHANGED <<storeVars, userOps, agentVars, claimed, watch, tail, blob, stop_file, failures, timer, pool, needed, pick>>

\* the cap on `started`: the call creates no claim, or fewer than max were created
Capped(a, seed, max) ==
    \/ counts.started < max
    \/ ~get_dir_changes(run[a].san)
    \/ incomplete[seed].owner # NoOwner

\* agents claiming, heartbeating, stealing and ending runs of the ensemble, and
\* users who stop and resume it
NextCommon ==
    \/ \E a \in Agents : agent_sanity(a)
    \/ \E a \in Agents : agent_continue(a)
    \/ \E a \in Agents : agent_break(a)
    \/ \E a \in Agents : should_run_ensemble(a)
    \/ \E a \in Agents : should_run_retry(a)
    \/ \E a \in Agents : should_run_steal(a)
    \/ \E a \in Agents : agent_sleep(a)
    \/ \E a \in Agents, seed \in Seeds :
          Capped(a, seed, MaxStarted) /\ try_starting_test(a, seed)
    \/ \E a \in Agents : heartbeat_and_check_running(a)
    \/ \E a \in Agents, retcode \in RetCodes : _run_ensemble(a, retcode)
    \/ \E a \in Agents : insert_retry(a)
    \/ \E a \in Agents : insert_error(a)
    \/ \E seed \in Seeds : counts.started < MaxStarted /\ dead_agent(seed)
    \/ \E x \in BOOLEAN : userOps < MaxUserOps /\ stop_ensemble(x)
    \/ \E x \in BOOLEAN : userOps < MaxUserOps /\ resume_ensemble(x)
    \/ Tick

\* runs whose output fits one key
Next ==
    \/ NextCommon
    \/ \E a \in Agents : _insert_results(a, FALSE)

Spec == Init /\ [][Next]_vars

\* runs whose output may be longer than BLOB_KEY_LIMIT, of one ensemble
InitBlob == Init /\ props.max_runs = 2

NextBlob ==
    \/ NextCommon
    \/ \E a \in Agents, big \in BOOLEAN : _insert_results(a, big)
    \/ \E a \in Agents : _insert_blob(a)
    \/ \E a \in Agents : blob_error(a)

SpecBlob == InitBlob /\ [][NextBlob]_vars


\* test_dead_agent: try_starting_test(ensemble_id, 12345) by a process that makes
\* no other call, on an ensemble created with max_runs = 1, before the agents start
DeadSeed == 1
InitDead ==
    /\ now = 0
    /\ all = TRUE
    /\ props = [NoProps EXCEPT !.max_runs = 1]
    /\ counts = [NoCounts EXCEPT !.started = 1]
    /\ active = TRUE
    /\ sanity = FALSE
    /\ changes = [active |-> 1, sanity |-> 0]
    /\ incomplete = [s \in Seeds |->
                        IF s = DeadSeed
                        THEN [owner |-> instanceid("a0"), began_at |-> TRUE,
                              hostname |-> get_hostname("a0"), heartbeat |-> 0]
                        ELSE NoClaim]
    /\ results = <<>>
    /\ large = {}
    /\ userOps = 0
    /\ pc = [a \in Agents |-> "loop"]
    /\ run = [a \in Agents |-> NoRun]
    /\ txn = [a \in Agents |-> NoTxn]
    /\ claimed = [s \in Seeds |-> IF s = DeadSeed THEN 1 ELSE 0]
    /\ watch = [x \in BOOLEAN |-> NoWatch]
    /\ failures = {}
    /\ tail = NoTail /\ blob = NoBlob /\ stop_file = NoStopFile /\ timer = NoTimer /\ pool = NoPool /\ needed = NoNeeded /\ pick = NoPick

\* the live agents
NextDead ==
    \/ \E a \in Agents : agent_continue(a)
    \/ \E a \in Agents : agent_break(a)
    \/ \E a \in Agents : should_run_ensemble(a)
    \/ \E a \in Agents : should_run_retry(a)
    \/ \E a \in Agents : should_run_steal(a)
    \/ \E a \in Agents : agent_sleep(a)
    \/ \E a \in Agents, seed \in Seeds :
          Capped(a, seed, MaxStartedDead) /\ try_starting_test(a, seed)
    \/ \E a \in Agents : heartbeat_and_check_running(a)
    \/ \E a \in Agents, retcode \in RetCodes : _run_ensemble(a, retcode)
    \/ \E a \in Agents : insert_retry(a)
    \/ \E a \in Agents : insert_error(a)
    \/ \E a \in Agents : _insert_results(a, FALSE)
    \/ Tick

\* the agent loop keeps polling, the test process ends (or is killed on its
\* timeout), transactions that can commit do, and time passes; heartbeats and
\* database errors are not obliged to happen
FairDead ==
    /\ WF_vars(Tick)
    /\ \A a \in Agents :
          /\ WF_vars(agent_continue(a))
          /\ WF_vars(should_run_ensemble(a))
          /\ WF_vars(should_run_retry(a))
          /\ WF_vars(should_run_steal(a))
          /\ WF_vars(agent_sleep(a))
          /\ WF_vars(\E seed \in Seeds :
                        Capped(a, seed, MaxStartedDead) /\ try_starting_test(a, seed))
          /\ WF_vars(\E retcode \in RetCodes : _run_ensemble(a, retcode))
          /\ WF_vars(insert_retry(a))
          /\ WF_vars(_insert_results(a, FALSE))

SpecDead == InitDead /\ [][NextDead]_vars /\ FairDead


\* the agents alone, on an ensemble nobody stops or resumes by hand: enough runs
\* for `ended` to pass max_runs and `fail` to pass fail_fast
MaxStartedRuns == 4
ConfigsRuns == {<<1, 0>>, <<2, 0>>, <<0, 2>>}
InitRuns == tail = NoTail /\ blob = NoBlob /\ stop_file = NoStopFile /\ timer = NoTimer /\ pool = NoPool /\ needed = NoNeeded /\ pick = NoPick /\ \E c \in ConfigsRuns : Created(c)

NextRuns ==
    \/ \E a \in Agents : agent_continue(a)
    \/ \E a \in Agents : agent_break(a)
    \/ \E a \in Agents : should_run_ensemble(a)
    \/ \E a \in Agents : should_run_retry(a)
    \/ \E a \in Agents : should_run_steal(a)
    \/ \E a \in Agents : agent_sleep(a)
    \/ \E a \in Agents, seed \in Seeds :
          Capped(a, seed, MaxStartedRuns) /\ try_starting_test(a, seed)
    \/ \E a \in Agents : heartbeat_and_check_running(a)
    \/ \E a \in Agents, retcode \in RetCodes : _run_ensemble(a, retcode)
    \/ \E a \in Agents : insert_retry(a)
    \/ \E a \in Agents : _insert_results(a, FALSE)
    \/ Tick

SpecRuns == InitRuns /\ [][NextRuns]_vars

\* the users of the registry alone, on an empty database: create, stop, resume
\* and delete calls for one ensemble id, each with either sanity flag
MaxRegistryOps == 4
NextRegistry ==
    \/ \E x \in BOOLEAN, c \in Configs :
          userOps < MaxRegistryOps /\ create_ensemble(x, c[1], c[2])
    \/ \E x \in BOOLEAN : userOps < MaxRegistryOps /\ stop_ensemble(x)
    \/ \E x \in BOOLEAN : userOps < MaxRegistryOps /\ resume_ensemble(x)
    \/ \E x \in BOOLEAN : userOps < MaxRegistryOps /\ delete_ensemble(x)
    \/ \E x \in BOOLEAN : list_and_watch_ensembles(x)
    \/ Tick

SpecRegistry == InitRegistry /\ [][NextRegistry]_vars

\* test_delete_ensemble: agents claim, heartbeat and end runs of an ensemble
\* that never reaches max_runs, while it is deleted with either sanity flag
InitDelete == tail = NoTail /\ blob = NoBlob /\ stop_file = NoStopFile /\ timer = NoTimer /\ pool = NoPool /\ needed = NoNeeded /\ pick = NoPick /\ Created(<<0, 0>>)

NextDelete ==
    \/ \E a \in Agents : agent_continue(a)
    \/ \E a \in Agents : agent_break(a)
    \/ \E a \in Agents : should_run_ensemble(a)
    \/ \E a \in Agents, seed \in Seeds :
          Capped(a, seed, MaxStarted) /\ try_starting_test(a, seed)
    \/ \E a \in Agents : heartbeat_and_check_running(a)
    \/ \E a \in Agents, retcode \in RetCodes : _run_ensemble(a, retcode)
    \/ \E a \in Agents : insert_retry(a)
    \/ \E a \in Agents, big \in BOOLEAN : _insert_results(a, big)
    \/ \E a \in Agents : _insert_blob(a)
    \/ \E x \in BOOLEAN : userOps < MaxUserOps /\ delete_ensemble(x)

SpecDelete == InitDelete /\ [][NextDelete]_vars

\* test_agent / test_two_agents_large_ensemble: tail_results is called on an
\* ensemble with max_runs = 2 that an agent runs and a user may stop
MaxResults == 3
TailAgents == {"a1"}
InitTail ==
    /\ Created(<<2, 0>>)
    /\ blob = NoBlob /\ stop_file = NoStopFile /\ timer = NoTimer /\ pool = NoPool /\ needed = NoNeeded /\ pick = NoPick
    /\ \E errors_only \in BOOLEAN, compressed \in BOOLEAN :
          tail = tail_results(errors_only, compressed)

NextTail ==
    \/ \E a \in TailAgents : agent_continue(a)
    \/ \E a \in TailAgents : should_run_ensemble(a)
    \/ \E a \in TailAgents, seed \in Seeds :
          Capped(a, seed, MaxResults) /\ try_starting_test(a, seed)
    \/ \E a \in TailAgents, retcode \in RetCodes : _run_ensemble(a, retcode)
    \/ \E a \in TailAgents : insert_retry(a)
    \/ \E a \in TailAgents, big \in BOOLEAN : _insert_results(a, big)
    \/ \E a \in TailAgents : _insert_blob(a)
    \/ \E x \in BOOLEAN : userOps < MaxUserOps /\ stop_ensemble(x)
    \/ \E n \in 0..MaxResults, cut \in BOOLEAN : _read_and_watch_results(n, cut)
    \/ wait_for_any

SpecTail == InitTail /\ [][NextTail]_vars

\* the generator of tail_results is consumed to its end: rounds that can be made
\* are made, and a wait returns once a watch is ready
FairTail ==
    /\ WF_vars(\E n \in 0..MaxResults, cut \in BOOLEAN : _read_and_watch_results(n, cut))
    /\ WF_vars(wait_for_any)

SpecTailFair == InitTail /\ [][NextTail]_vars /\ FairTail

\* a file of at most MaxFile bytes is written into an empty subspace with
\* _insert_blob and read back with _read_blob
InitRoundTrip ==
    /\ Created(<<0, 0>>)
    /\ tail = NoTail /\ stop_file = NoStopFile /\ timer = NoTimer /\ pool = NoPool /\ needed = NoNeeded /\ pick = NoPick
    /\ \E file \in Files : blob = [NoBlob EXCEPT !.file = file]

NextRoundTrip ==
    \/ _insert_blob_loop
    \/ _read_blob

SpecRoundTrip == InitRoundTrip /\ [][NextRoundTrip]_vars

\* exit codes of a run in the agent specification: pass, fail, cancelled, timed out
RetCodesAgent == {0, 1, -1, -2}

\* agents started without a stop_file argument or with one that does not exist
\* yet, on an ensemble that users put into and take out of the two indexes
InitAgent ==
    /\ Created(<<0, 0>>)
    /\ tail = NoTail /\ blob = NoBlob
    /\ stop_file \in [Agents -> {"None", "absent"}]
    /\ timer = NoTimer /\ pool = NoPool /\ needed = NoNeeded /\ pick = NoPick

\* the agent loop with its sanity runs, the retried claim, runs that time out,
\* and users who stop and resume the ensemble under either flag
NextAgent ==
    \/ \E a \in Agents : agent_sanity(a)
    \/ \E a \in Agents : agent_continue(a)
    \/ \E a \in Agents : agent_break(a)
    \/ \E a \in Agents : should_run_ensemble(a)
    \/ \E a \in Agents, seed \in Seeds :
          Capped(a, seed, MaxStarted) /\ try_starting_test(a, seed)
    \/ \E a \in Agents, seed \in Seeds :
          Capped(a, seed, MaxStarted) /\ try_starting_unknown(a, seed)
    \/ \E a \in Agents : try_starting_again(a)
    \/ \E a \in Agents : heartbeat_and_check_running(a)
    \/ \E a \in Agents, retcode \in RetCodesAgent : _run_ensemble(a, retcode)
    \/ \E a \in Agents : insert_retry(a)
    \/ \E a \in Agents : _insert_results(a, FALSE)
    \/ \E x \in BOOLEAN : userOps < MaxUserOps /\ stop_ensemble(x)
    \/ \E x \in BOOLEAN : userOps < MaxUserOps /\ resume_ensemble(x)

SpecAgent == InitAgent /\ [][NextAgent]_vars

\* -------------------------------------------------------------- idle agent
\* the value given for agent_timeout or agent_idle_timeout, in seconds
IdleTimeout == 2

\* a second passes: time.time() - start and time.time() - idle_start, which are
\* kept up to the value they are compared with
second_passes(t) == [t EXCEPT !.since_start = IF @ < IdleTimeout THEN @ + 1 ELSE @,
                              !.since_idle = IF @ < IdleTimeout THEN @ + 1 ELSE @]

\* an agent that is never timed out
timed_out_never(t) == FALSE
\* agent(): (agent_timeout is not None and now - start >= agent_timeout) or
\* (agent_idle_timeout is not None and now - idle_start >= agent_idle_timeout)
timed_out(t) ==
    \/ t.agent_timeout # -1 /\ t.since_start >= t.agent_timeout
    \/ t.agent_idle_timeout # -1 /\ t.since_idle >= t.agent_idle_timeout

\* agent(): if ensembles: filter(joshua_model.should_run_ensemble, ensembles),
\* on the list that list_and_watch_active_ensembles returned
agent_filter(a) ==
    /\ pc[a] = "loop"
    /\ ~stop_file_exists(a)
    /\ watch[FALSE].set /\ watch[FALSE].ensembles
    /\ should_run_body(a)

\* agent(): else: watch.wait_for_any(watch, sanity_watch, TimeoutFuture(1.0)),
\* which returns when a watch has fired or after the second, then
\* if timed out: break else: continue
agent_idle(a, fired) ==
    /\ pc[a] = "loop"
    /\ ~stop_file_exists(a)
    /\ watch[FALSE].set /\ ~watch[FALSE].ensembles
    /\ fired => is_ready(FALSE) \/ is_ready(TRUE)
    /\ LET t == IF fired THEN timer[a] ELSE second_passes(timer[a])
       IN /\ timer' = [timer EXCEPT ![a] = t]
          /\ pc' = [pc EXCEPT ![a] = IF timed_out(t) THEN "exited" ELSE "loop"]
    /\ UNCHANGED <<now, watch, tail, blob, stop_file, failures, pool, needed, pick, storeVars, userOps, run, txn, claimed>>

\* a second of a run or of time.sleep(1) passes
time_passes(a) ==
    /\ pc[a] \in {"running", "sleep"}
    /\ timer[a] # second_passes(timer[a])
    /\ timer' = [timer EXCEPT ![a] = second_passes(@)]
    /\ UNCHANGED <<now, watch, tail, blob, stop_file, failures, pool, needed, pick, storeVars, userOps, agentVars, claimed>>

\* agent a1 is started with any of its two timeouts given or not, a2 with none,
\* on an ensemble created without limit or with max_runs = 1
InitIdle ==
    /\ \E c \in {<<0, 0>>, <<1, 0>>} : Created(c)
    /\ tail = NoTail /\ blob = NoBlob /\ stop_file = NoStopFile
    /\ pool = NoPool /\ needed = NoNeeded /\ pick = NoPick
    /\ \E at \in {-1, IdleTimeout}, it \in {-1, IdleTimeout} :
          timer = [NoTimer EXCEPT !["a1"].agent_timeout = at, !["a1"].agent_idle_timeout = it]

\* agent a1 runs its loop on the list and the watch it got; a2 is an agent
\* whose list is always the index; users stop the ensemble
NextIdle ==
    \/ list_and_watch_ensembles(FALSE)
    \/ agent_filter("a1")
    \/ \E fired \in BOOLEAN : agent_idle("a1", fired)
    \/ time_passes("a1")
    \/ should_run_ensemble("a2")
    \/ \E a \in Agents : agent_continue(a)
    \/ \E a \in Agents : agent_break(a)
    \/ \E a \in Agents : agent_sleep(a)
    \/ \E a \in Agents, seed \in Seeds :
          Capped(a, seed, MaxStarted) /\ try_starting_test(a, seed)
    \/ \E a \in Agents : heartbeat_and_check_running(a)
    \/ \E a \in Agents, retcode \in RetCodes : _run_ensemble(a, retcode)
    \/ \E a \in Agents : insert_retry(a)
    \/ \E a \in Agents : _insert_results(a, FALSE)
    \/ userOps < MaxUserOps /\ stop_ensemble(FALSE)

SpecIdle == InitIdle /\ [][NextIdle]_vars

\* the loop of agent a1 goes on, its watch is delivered, its test process ends,
\* its transactions that can commit do; heartbeats are not obliged to happen
FairIdle ==
    /\ WF_vars(list_and_watch_ensembles(FALSE))
    /\ WF_vars(agent_filter("a1"))
    /\ WF_vars(agent_idle("a1", FALSE))
    /\ WF_vars(agent_continue("a1"))
    /\ WF_vars(agent_break("a1"))
    /\ WF_vars(agent_sleep("a1"))
    /\ WF_vars(\E seed \in Seeds : Capped("a1", seed, MaxStarted) /\ try_starting_test("a1", seed))
    /\ WF_vars(\E retcode \in RetCodes : _run_ensemble("a1", retcode))
    /\ WF_vars(insert_retry("a1"))
    /\ WF_vars(_insert_results("a1", FALSE))

SpecIdleFair == InitIdle /\ [][NextIdle]_vars /\ FairIdle

\* ------------------------------------------------- determine_agents_needed
\* the largest number of CPUs and of agents a call is made with
MaxCpus == 6
\* values of psutil.getloadavg()[0], in tenths
Loads == {0, 2, 12, 30}
\* values of args.growth_rate, which the main program keeps within 1.0 .. 100.0
GrowthRates == {1, 30, 50, 100}

\* int(load_average[0]) without the noise allowance
cpus_used_floor(load) == load \div 10
\* cpus_used = int(load_average[0] + 0.8), of a load given in tenths
cpus_used(load) == (load + 8) \div 10

\* int(round(n / d)) of Python 3 for n >= 0 and d > 0: halves go to the even neighbour
round(n, d) ==
    LET q == n \div d
        r == n % d
    IN IF 2 * r > d \/ (2 * r = d /\ q % 2 = 1) THEN q + 1 ELSE q

\* determine_agents_needed, with the load average it reads and args.growth_rate
determine_agents_needed(current_agents, max_agents, free_cpus, total_cpus, load, growth_rate) ==
    LET available_cpus == total_cpus - cpus_used(load) - free_cpus
        agents_needed ==
            IF available_cpus > 0
            THEN min(max_agents - current_agents, available_cpus)
            ELSE IF -current_agents >= available_cpus THEN -current_agents ELSE available_cpus
    IN IF agents_needed <= 100 \div growth_rate
       THEN agents_needed
       ELSE round(agents_needed * growth_rate, 100)

\* any numbers of agents and CPUs up to MaxCpus, a load and a growth rate
InitNeeded ==
    /\ Created(<<0, 0>>)
    /\ tail = NoTail /\ blob = NoBlob /\ stop_file = NoStopFile /\ timer = NoTimer /\ pool = NoPool
    /\ pick = NoPick
    /\ \E c \in 0..MaxCpus, m \in 0..MaxCpus, f \in 0..MaxCpus, t \in 0..MaxCpus,
          l \in Loads, g \in GrowthRates :
          needed = [NoNeeded EXCEPT !.current_agents = c, !.max_agents = m, !.free_cpus = f,
                                    !.total_cpus = t, !.load = l, !.growth_rate = g]

\* the call returns
call_determine_agents_needed ==
    /\ ~needed.returned
    /\ needed' = [needed EXCEPT !.returned = TRUE,
                                !.agents_needed = determine_agents_needed(
                                    needed.current_agents, needed.max_agents, needed.free_cpus,
                                    needed.total_cpus, needed.load, needed.growth_rate)]
    /\ UNCHANGED <<now, watch, tail, blob, stop_file, failures, timer, pool, pick, storeVars, userOps, agentVars, claimed>>

NextNeeded == call_determine_agents_needed

SpecNeeded == InitNeeded /\ [][NextNeeded]_vars

\* ------------------------------------------------------------ pool manager
\* args.death_wait and args.max_death_wait
DeathWaits == {<<1, 8>>, <<2, 3>>, <<1, 0>>}

\* get_ensemble_total: len of list_and_watch_active_ensembles()
get_ensemble_total == IF active THEN 1 ELSE 0

\* manage_agents: stopping, after the stop-file and the free space were looked at
stopping(enough_space) == ~pool.stop_processed /\ (pool.stopfile \/ ~enough_space)

\* manage_agents: agents_needed of a tick, None being 0 (`if not agents_needed: pass`)
agents_needed(load, enough_space) ==
    IF pool.stop_processed THEN 0
    ELSE IF stopping(enough_space) THEN -Cardinality(pool.children)
    ELSE IF get_ensemble_total > 0
         THEN determine_agents_needed(Cardinality(pool.children), pool.max_agents,
                                      pool.free_cpus, pool.total_cpus, load, pool.growth_rate)
         ELSE -Cardinality(pool.children)

\* a manager that gives up the wait as soon as it has started
max_death_wait_ignored(p) == FALSE
\* manage_agents: death_cycles < (args.max_death_wait / args.death_wait)
max_death_wait_left(p) == p.death_cycles * p.death_wait < p.max_death_wait

\* manage_agents: "Process Waits"; what the manager does at the end of a tick
process_waits(enough_space) ==
    IF ~pool.stop_processed /\ ~stopping(enough_space) THEN "sleep"
    ELSE IF pool.children = {} THEN "break"
    ELSE IF ~pool.stop_processed THEN "first"
    ELSE IF pool.death_cycles > 5 /\ get_ensemble_total = 0 THEN "break"
    ELSE IF max_death_wait_left(pool) THEN "wait"
    ELSE "break"

\* manage_agents: one cycle of `while True` up to create_agents or to its end
manage_agents(load, enough_space) ==
    /\ pool.pc = "tick"
    /\ LET n == agents_needed(load, enough_space)
           w == process_waits(enough_space)
       IN pool' = [pool EXCEPT
              !.agents_desired = IF n = 0 THEN @ ELSE Cardinality(pool.children) + n,
              !.stop_agent = IF n > 0 THEN FALSE ELSE IF n < 0 THEN TRUE ELSE @,
              !.to_create = IF n > 0 THEN n ELSE 0,
              !.pc = IF n > 0 THEN "create" ELSE IF w = "break" THEN "exited" ELSE "tick",
              !.stop_processed = IF w = "first" THEN TRUE ELSE @,
              !.death_cycles = IF w \in {"first", "wait"} THEN @ + 1 ELSE @]
    /\ UNCHANGED <<now, watch, tail, blob, stop_file, failures, timer, needed, pick, storeVars, userOps, agentVars, claimed>>

\* create_agents: t = start_agent(nextAgentId, ...), the thread runs
start_agent ==
    /\ pool.pc = "create"
    /\ pool' = [pool EXCEPT !.threads[pool.nextAgentId] = "alive", !.pc = "register"]
    /\ UNCHANGED <<now, watch, tail, blob, stop_file, failures, timer, needed, pick, storeVars, userOps, agentVars, claimed>>

\* create_agents: mutex.acquire(); children_array[t.ident] = nextAgentId;
\* mutex.release(); after the last one the manager sleeps mgr_sleep
create_agents ==
    /\ pool.pc = "register"
    /\ pool.mutex = "free"
    /\ pool' = [pool EXCEPT !.children = @ \cup {pool.nextAgentId},
                            !.nextAgentId = @ + 1,
                            !.to_create = @ - 1,
                            !.pc = IF pool.to_create = 1 THEN "tick" ELSE "create"]
    /\ UNCHANGED <<now, watch, tail, blob, stop_file, failures, timer, needed, pick, storeVars, userOps, agentVars, claimed>>

\* a thread function that takes every worker out of children_array
popped_always(p, w, how) == [p EXCEPT !.children = @ \ {w}]
\* agent_thread after joshua_agent.agent has returned ("passed") or raised an
\* OSError ("failed"): if thread_array: pop under the mutex, a KeyError leaving
\* the mutex locked, then the stop flag is set from threads_left; any other
\* exception ("raised") ends the thread at once
popped(p, w, how) ==
    IF how = "raised" \/ p.children = {} THEN p
    ELSE IF w \notin p.children THEN [p EXCEPT !.mutex = "locked"]
    ELSE [p EXCEPT !.children = @ \ {w},
                   !.stop_agent = Cardinality(p.children \ {w}) > p.agents_desired]

\* the thread of worker w ends
agent_thread(w, how) ==
    /\ pool.threads[w] = "alive"
    /\ how # "raised" /\ pool.children # {} => pool.mutex = "free"
    /\ pool' = [popped(pool, w, how) EXCEPT !.threads[w] = "dead"]
    /\ UNCHANGED <<now, watch, tail, blob, stop_file, failures, timer, needed, pick, storeVars, userOps, agentVars, claimed>>

\* terminateProcess, the handler of SIGTERM and SIGINT
terminateProcess ==
    /\ pool' = [pool EXCEPT !.agents_desired = 0, !.stopfile = TRUE]
    /\ UNCHANGED <<now, watch, tail, blob, stop_file, failures, timer, needed, pick, storeVars, userOps, agentVars, claimed>>

\* somebody creates the file STOP_AGENTS
touch_stopfile ==
    /\ ~pool.stopfile
    /\ pool' = [pool EXCEPT !.stopfile = TRUE]
    /\ UNCHANGED <<now, watch, tail, blob, stop_file, failures, timer, needed, pick, storeVars, userOps, agentVars, claimed>>

\* the manager on a machine of 1 or 3 CPUs
InitPool ==
    /\ Created(<<0, 0>>)
    /\ tail = NoTail /\ blob = NoBlob /\ stop_file = NoStopFile /\ timer = NoTimer
    /\ needed = NoNeeded /\ pick = NoPick
    /\ \E t \in {1, 3}, m \in {1, 3}, f \in {0, 1}, g \in {50, 100}, d \in DeathWaits :
          pool = [NoPool EXCEPT !.total_cpus = t, !.max_agents = m, !.free_cpus = f,
                                !.growth_rate = g, !.death_wait = d[1], !.max_death_wait = d[2]]

\* the cap on nextAgentId: the tick starts no thread beyond MaxWorkers
PoolCapped(load, enough_space) ==
    pool.nextAgentId + agents_needed(load, enough_space) - 1 <= MaxWorkers

\* the manager, its worker threads, signals, and users who stop and resume the ensemble
NextPool ==
    \/ \E load \in Loads, enough_space \in BOOLEAN :
          PoolCapped(load, enough_space) /\ manage_agents(load, enough_space)
    \/ start_agent
    \/ create_agents
    \/ \E w \in Workers, how \in {"passed", "failed", "raised"} : agent_thread(w, how)
    \/ terminateProcess
    \/ touch_stopfile
    \/ userOps < MaxUserOps /\ stop_ensemble(FALSE)
    \/ userOps < MaxUserOps /\ resume_ensemble(FALSE)

SpecPool == InitPool /\ [][NextPool]_vars

\* the manager's loop goes on; threads and signals are not obliged to do anything
FairPool ==
    /\ WF_vars(\E load \in Loads, enough_space \in BOOLEAN :
                  PoolCapped(load, enough_space) /\ manage_agents(load, enough_space))
    /\ WF_vars(start_agent)
    /\ WF_vars(create_agents)

SpecPoolFair == InitPool /\ [][NextPool]_vars /\ FairPool

\* ------------------------------------------------------- weighted choice
\* random.random() is k / RandomSteps for a k in 0 .. RandomSteps - 1
RandomSteps == 4
\* values of the `priority` property (joshua start --priority) and of the
\* counters duration and ended of an ensemble
Priorities == {50, 100, 200}
MaxDuration == 3

\* the ensembles an agent can find runnable: properties/priority as
\* start_ensemble wrote it, the counters under count/ that exist (nothing
\* writes a counter named priority), duration being 0 while ended is 0
RunnableEnsembles ==
    {e \in [properties : [priority : Priorities],
            count : [duration : 0..MaxDuration, ended : 0..MaxDuration]] :
        e.count.ended = 0 => e.count.duration = 0}

\* _get_snap_counter: 0 when the key count/<counter> does not exist
_get_snap_counter(e, counter) ==
    IF counter \in DOMAIN e.count THEN e.count[counter] ELSE 0

\* get_ensemble_mean_durations: 1.0 if ended == 0 else max(1.0, duration / ended),
\* as numerator and denominator
get_ensemble_mean_durations(e) ==
    LET duration == _get_snap_counter(e, "duration")
        ended == _get_snap_counter(e, "ended")
    IN IF ended = 0 \/ duration <= ended THEN <<1, 1>> ELSE <<duration, ended>>

\* get_ensemble_priorities: the counter `priority`, 100 when it is 0;
\* in hundredths
get_ensemble_priorities(e) ==
    LET priority == _get_snap_counter(e, "priority")
    IN IF priority = 0 THEN 100 ELSE priority

\* the product of the numerators of the mean durations of the list
RECURSIVE Scale(_)
Scale(ens) ==
    IF ens = <<>> THEN 1 ELSE get_ensemble_mean_durations(Head(ens))[1] * Scale(Tail(ens))

\* agent(): buckets, the width priorities[en] / durations[en] of each ensemble,
\* all in units of 1 / (100 * Scale(ens))
buckets(ens) ==
    [i \in DOMAIN ens |->
        (get_ensemble_priorities(ens[i]) * get_ensemble_mean_durations(ens[i])[2] * Scale(ens))
            \div get_ensemble_mean_durations(ens[i])[1]]

RECURSIVE sum(_)
sum(widths) == IF widths = <<>> THEN 0 ELSE Head(widths) + sum(Tail(widths))

\* agent(): choice = random.random() * sum(widths); the walk adds up so_far and
\* stops at the first ensemble with so_far >= choice; 0 is None
RECURSIVE walk(_, _, _, _)
walk(widths, i, so_far, k) ==
    IF i > Len(widths) THEN 0
    ELSE IF RandomSteps * (so_far + widths[i]) >= k * sum(widths) THEN i
    ELSE walk(widths, i + 1, so_far + widths[i], k)

\* one or two runnable ensembles and a value of random.random()
InitPick ==
    /\ Created(<<0, 0>>)
    /\ tail = NoTail /\ blob = NoBlob /\ stop_file = NoStopFile /\ timer = NoTimer
    /\ pool = NoPool /\ needed = NoNeeded
    /\ \E ens \in UNION {[1..n -> RunnableEnsembles] : n \in 1..2}, k \in 0..(RandomSteps - 1) :
          pick = [NoPick EXCEPT !.ensembles_can_run = ens, !.random = k]

\* agent(): "Pick an ensemble to run"
agent_pick ==
    /\ pick.chosen_ensemble = 0 /\ pick.buckets = <<>>
    /\ pick' = [pick EXCEPT !.buckets = buckets(pick.ensembles_can_run),
                            !.chosen_ensemble = walk(buckets(pick.ensembles_can_run), 1, 0, pick.random)]
    /\ UNCHANGED <<now, watch, tail, blob, stop_file, failures, timer, pool, needed, storeVars, userOps, agentVars, claimed>>

NextPick == agent_pick

SpecPick == InitPick /\ [][NextPick]_vars

\* ---------------------------------------------------------- create_ensemble
\* an empty database and a tarball of at most MaxFile bytes
InitCreate ==
    /\ now = 0 /\ all = FALSE /\ props = NoProps /\ counts = NoCounts
    /\ active = FALSE /\ sanity = FALSE /\ changes = [active |-> 0, sanity |-> 0]
    /\ incomplete = [s \in Seeds |-> NoClaim] /\ results = <<>> /\ large = {}
    /\ userOps = 0 /\ pc = [a \in Agents |-> "loop"] /\ run = [a \in Agents |-> NoRun]
    /\ txn = [a \in Agents |-> NoTxn] /\ claimed = [s \in Seeds |-> 0]
    /\ watch = [x \in BOOLEAN |-> NoWatch] /\ failures = {}
    /\ tail = NoTail /\ stop_file = NoStopFile /\ timer = NoTimer
    /\ pool = NoPool /\ needed = NoNeeded /\ pick = NoPick
    /\ \E file \in Files : blob = [NoBlob EXCEPT !.file = file]

\* a create_ensemble that does not wait for its upload
blob_inserted_unawaited == TRUE
\* create_ensemble: _insert_blob(db, dir_ensemble_data[ensemble_id], tarball, 0, True)
\* has returned
blob_inserted == blob.written

\* create_ensemble: _create_ensemble(db, ensemble_id, properties, sanity), after _insert_blob
create_ensemble_visible(x) ==
    /\ blob_inserted
    /\ ~all
    /\ create_ensemble(x, 0, 0)

\* ensure_state: joshua_model.get_ensemble_data(ensemble_id, temp_file) by an
\* agent that found the ensemble in an index
ensure_state ==
    /\ active \/ sanity
    /\ _read_blob_loop

NextCreate ==
    \/ _insert_blob_loop
    \/ \E x \in BOOLEAN : create_ensemble_visible(x)
    \/ \E x \in BOOLEAN : list_and_watch_ensembles(x)
    \/ ensure_state

SpecCreate == InitCreate /\ [][NextCreate]_vars

\* ------------------------------------------------------------------ claims
\* the agents that run_ensemble has a run for: claimed, or inserting its result
InRun(a) == pc[a] \in {"running", "ins", "blob"}

\* agent a's try_starting_test takes this step
TryStartStep(a) == pc[a] = "start" /\ pc'[a] # "start"

\* C1: try_starting_test never overwrites an existing claim: a call leaves every
\* entry of incomplete that exists as it is, and it returns true (the run starts)
\* only for a seed whose entry was absent or carried the caller's instance id, so
\* that while an entry exists only callers of one instance id get true for its seed
C1_TryStartNeverOverwrites ==
    [][\A a \in Agents :
          TryStartStep(a) =>
              /\ \A s \in Seeds : incomplete[s].owner # NoOwner => incomplete'[s] = incomplete[s]
              /\ pc'[a] = "running" =>
                     /\ incomplete[run'[a].seed].owner \in {NoOwner, instanceid(a)}
                     /\ incomplete'[run'[a].seed].owner = instanceid(a)
              /\ \A s \in Seeds :
                     incomplete[s].owner \notin {NoOwner, instanceid(a)} /\ run'[a].seed = s
                         => pc'[a] = "returned" /\ run'[a].code = -3]_vars

\* an agent was refused (-3) the seed that another instance holds and runs
C1_Witness ==
    \E a, b \in Agents :
        /\ pc[a] = "returned" /\ run[a].code = -3
        /\ get_dir_changes(run[a].san)
        /\ pc[b] = "running" /\ run[b].seed = run[a].seed
        /\ incomplete[run[a].seed].owner = instanceid(b)
        /\ instanceid(b) # instanceid(a)


\* the rows of results/{pass,fail}/<EID> whose key carries seed s
rows_of(s) == {i \in DOMAIN results : results[i].seed = s}

\* agent a's insert_results call ends in this step
InsertEnds(a) == pc[a] = "ins" /\ pc'[a] \notin {"ins"}

\* C2: a result row of a seed is committed exactly by a transaction of
\* _insert_results that found the ensemble in the index of its sanity flag and
\* the incomplete entry of the seed present, and that deletes that entry with its
\* began_at, hostname and heartbeat keys: every step that adds a row is such a
\* step, and an _insert_results transaction that deletes an entry adds the row
C2_RowIffClaimDeleted ==
    [][/\ results' # results =>
            \E a \in Agents :
                /\ InsertEnds(a)
                /\ Len(results') = Len(results) + 1
                /\ \A i \in DOMAIN results : results'[i] = results[i]
                /\ results'[Len(results')].seed = run[a].seed
                /\ get_dir_changes(run[a].san)
                /\ incomplete[run[a].seed].owner # NoOwner
                /\ incomplete'[run[a].seed] = NoClaim
       /\ \A a \in Agents :
            InsertEnds(a) /\ incomplete' # incomplete =>
                /\ Len(results') = Len(results) + 1
                /\ results'[Len(results')].seed = run[a].seed]_vars

\* a row was committed and the entry of its seed is gone with all its keys
C2_Witness ==
    /\ Len(results) = 1
    /\ incomplete[results[1].seed] = NoClaim
    /\ claimed[results[1].seed] = 1
    /\ \E s \in Seeds : incomplete[s].owner # NoOwner


\* C3 as stated: at most one result row for each seed of the ensemble
C3_AtMostOneRowPerSeed == \A s \in Seeds : Cardinality(rows_of(s)) <= 1

\* C3: at most one result row is committed for each claim of a seed: the rows
\* of a seed, plus one while its entry is in incomplete, never outnumber the
\* claims try_starting_test created for it, whatever the interleaving of
\* inserts, wrapped-error retries, steals, stops and resumes
C3_AtMostOneRowPerClaim ==
    \A s \in Seeds :
        Cardinality(rows_of(s)) + (IF incomplete[s].owner # NoOwner THEN 1 ELSE 0) <= claimed[s]

\* the blob write failed after the marker row was committed and the retry with
\* the wrapped error returned without a second row
C3_Witness ==
    \E a \in Agents :
        /\ pc[a] = "returned"
        /\ Len(results) = 1
        /\ results[1].seed = run[a].seed
        /\ results[1].output = "marker"
        /\ large = {}
        /\ claimed[run[a].seed] = 1


\* the rows under results/pass/<EID> (d = "pass") or results/fail/<EID>
rows_in(d) == {i \in DOMAIN results : results[i].dir = d}

\* C4: counts.pass is the number of rows under results/pass, counts.fail the
\* number under results/fail, counts.ended their sum, and a row is under pass
\* exactly when its result code is 0: an insertion with code 0 counted for pass
\* only, one with a non-zero code for fail only
C4_CountsMatchRows ==
    /\ counts.pass = Cardinality(rows_in("pass"))
    /\ counts.fail = Cardinality(rows_in("fail"))
    /\ counts.ended = counts.pass + counts.fail
    /\ \A i \in DOMAIN results : results[i].code = 0 <=> results[i].dir = "pass"

\* one run passed and one run failed
C4_Witness ==
    /\ counts.pass = 1
    /\ counts.fail = 1
    /\ \E i, j \in DOMAIN results : results[i].code = 0 /\ results[j].code # 0


\* C5: under claims, steals, inserts, stop and resume the counters of the
\* ensemble satisfy pass + fail <= ended <= started in every reachable state
C5_CountersOrdered ==
    /\ counts.pass + counts.fail <= counts.ended
    /\ counts.ended <= counts.started

\* two runs were claimed, one ended, and the claim of the other was removed by
\* a steal or a stop: started stays above ended
C5_Witness ==
    /\ counts.started = 2
    /\ counts.ended = 1
    /\ \A s \in Seeds : incomplete[s] = NoClaim


\* agent a's steal transaction commits in this step
StealCommits(a) == pc[a] = "steal" /\ ~txn[a].conflict /\ pc'[a] # "steal"

\* C6: of the agents whose should_run_ensemble found the same dead claim, at
\* most one commits its steal: a steal commits only while the claim it read is
\* still there with its stale heartbeat, it deletes that claim, and every other
\* steal of that seed still in flight is refused at commit
C6_OneStealPerDeadClaim ==
    [][\A a \in Agents :
          StealCommits(a) =>
              /\ incomplete[txn[a].seed].owner # NoOwner
              /\ incomplete[txn[a].seed].heartbeat # Absent
              /\ now - incomplete[txn[a].seed].heartbeat > HeartbeatTimeout
              /\ incomplete'[txn[a].seed] = NoClaim
              /\ \A b \in Agents \ {a} :
                     pc[b] = "steal" /\ txn[b].seed = txn[a].seed => txn'[b].conflict]_vars

\* two agents found the same dead claim; one has stolen it and goes on to
\* claim a run, the steal of the other was refused
C6_Witness ==
    \E a, b \in Agents :
        /\ a # b
        /\ pc[a] = "start" /\ ~run[a].san
        /\ pc[b] = "steal" /\ txn[b].conflict
        /\ incomplete[txn[b].seed] = NoClaim
        /\ claimed[txn[b].seed] = 1
        /\ results = <<>>
        /\ userOps = 0


\* C7: with the claim of a dead agent (no heartbeat, no result) on an ensemble
\* with max_runs = 1 and live agents polling, a live agent eventually starts a
\* run, none does before the dead heartbeat is more than HeartbeatTimeout old,
\* the ensemble eventually is stopped, and no row is ever written for the dead
\* claimant's seed unless a live agent claimed that seed again
C7_DeadAgentIsReplaced ==
    /\ <>(\E a \in Agents : pc[a] = "running")
    /\ <>(~active /\ props.stopped # Absent)
    /\ [](claimed[DeadSeed] = 1 => rows_of(DeadSeed) = {})
    /\ [](\A a \in Agents : InRun(a) => now > HeartbeatTimeout)

\* the ensemble is stopped by the run of a live agent that took the dead
\* claimant's place
C7_Witness ==
    /\ ~active
    /\ props.stopped # Absent
    /\ counts.started = 2
    /\ Len(results) = 1
    /\ results[1].seed # DeadSeed


\* agent a evaluates the body of should_run_ensemble in this step
ShouldRunEvaluated(a) ==
    \/ pc[a] = "loop" /\ pc'[a] \notin {"loop", "exited"} /\ ~run'[a].san
    \/ pc[a] = "steal" /\ txn[a].conflict /\ ~txn'[a].conflict

\* max_runs = M > 0, started >= M, a heartbeat exists and none is older than
\* HeartbeatTimeout
AllRunsClaimedAndAlive ==
    /\ props.max_runs > 0
    /\ counts.started >= props.max_runs
    /\ HeartbeatSeeds # {}
    /\ \A s \in HeartbeatSeeds : now - incomplete[s].heartbeat <= HeartbeatTimeout

\* C8: should_run_ensemble evaluated while max_runs runs are claimed and every
\* heartbeat is at most HeartbeatTimeout old returns false and writes nothing;
\* the agent then sleeps and looks again, and it goes on to try_starting_test
\* for a run of the active index only from a look that did not find that state,
\* so such a look never leads to an increment of started
C8_NoStartWhileAllAlive ==
    [][\A a \in Agents :
          /\ ShouldRunEvaluated(a) /\ AllRunsClaimedAndAlive =>
                 /\ pc'[a] = "sleep"
                 /\ UNCHANGED storeVars
          /\ pc[a] = "sleep" => pc'[a] \in {"sleep", "loop"} /\ (pc'[a] = "loop" => UNCHANGED storeVars)
          /\ pc[a] # "start" /\ pc'[a] = "start" /\ ~run'[a].san =>
                 \/ ShouldRunEvaluated(a) /\ ~AllRunsClaimedAndAlive
                 \/ StealCommits(a)]_vars

\* an agent looked at the ensemble while the other agent held the max_runs-th
\* claim with a heartbeat exactly HeartbeatTimeout old, and sleeps
C8_Witness ==
    \E a, b \in Agents :
        /\ pc[a] = "sleep"
        /\ pc[b] = "running" /\ incomplete[run[b].seed].owner = instanceid(b)
        /\ AllRunsClaimedAndAlive
        /\ now - incomplete[run[b].seed].heartbeat = HeartbeatTimeout
        /\ counts.started = props.max_runs


\* C9: heartbeat_and_check_running returns false only when the ensemble is not
\* in its index or the claim of the seed is not the caller's instance id, it
\* then writes nothing and the caller cancels the run; a heartbeat key is
\* overwritten (outside the creation of a claim) only by a call that found the
\* index entry and the caller's own claim, and that call writes nothing else
C9_HeartbeatChecksOwner ==
    [][/\ \A a \in Agents :
            ~run[a].cancelled /\ run'[a].cancelled =>
                /\ InRun(a)
                /\ ~(get_dir_changes(run[a].san) /\ incomplete[run[a].seed].owner = instanceid(a))
                /\ UNCHANGED storeVars
       /\ \A s \in Seeds :
            /\ incomplete'[s].heartbeat # incomplete[s].heartbeat
            /\ incomplete'[s].heartbeat # Absent
            /\ ~(incomplete[s].owner = NoOwner /\ incomplete'[s].owner # NoOwner)
            => \E a \in Agents :
                  /\ InRun(a) /\ run[a].seed = s
                  /\ get_dir_changes(run[a].san)
                  /\ incomplete[s].owner = instanceid(a)
                  /\ incomplete' = [incomplete EXCEPT ![s].heartbeat = now]
                  /\ UNCHANGED <<all, props, counts, active, sanity, changes, results, large>>
                  /\ UNCHANGED <<pc, run>>]_vars

\* an agent whose claim was stolen got false and cancelled its run, while the
\* ensemble is in the index and another agent heartbeats its own claim
C9_Witness ==
    \E a, b \in Agents :
        /\ pc[a] = "running" /\ run[a].cancelled
        /\ get_dir_changes(run[a].san)
        /\ incomplete[run[a].seed].owner # instanceid(a)
        /\ pc[b] = "running" /\ ~run[b].cancelled
        /\ incomplete[run[b].seed].owner = instanceid(b)
        /\ incomplete[run[b].seed].heartbeat = now
        /\ now = MaxTime


\* agent a's insert_results call runs or re-runs _insert_results, or commits
\* it, in this step
InsertStep(a) ==
    \/ pc[a] = "running" /\ pc'[a] # "running"
    \/ /\ pc[a] = "ins"
       /\ \/ pc'[a] # "ins"
          \/ txn[a].conflict /\ ~txn'[a].conflict
          \/ run'[a].retried # run[a].retried
    \/ pc[a] = "blob" /\ pc'[a] # "blob" /\ large' = large

\* the index entry of a's run is absent, or the claim of its seed is
NothingToInsert(a) ==
    \/ ~get_dir_changes(run[a].san)
    \/ incomplete[run[a].seed].owner = NoOwner

\* insert_results writes nothing when the index entry or the claim is absent,
\* and a blob is written only after the marker row of its seed was committed
InsertsNothing ==
    /\ \A a \in Agents :
          InsertStep(a) /\ NothingToInsert(a) => UNCHANGED storeVars /\ pc'[a] = "returned"
    /\ large' # large =>
          \E a \in Agents :
              /\ pc[a] = "blob"
              /\ large' = large \cup {run[a].seed}
              /\ \E i \in rows_of(run[a].seed) : results[i].output = "marker"

C11_EndedWithinMaxRunsPlusAgents ==
    props.max_runs > 0 => counts.ended <= props.max_runs + Cardinality(Agents)

\* two results were committed side by side without a stop (each read ended = 0),
\* and the third one stopped the ensemble: max_runs is overshot by one
C11_Witness ==
    /\ props.max_runs = 2
    /\ ~active
    /\ props.stopped # Absent
    /\ counts.ended = 3

\* C12 as stated: an ensemble with fail_fast = F > 0 is out of its index as soon as
\* fail has reached F (nothing here puts it back into the index)
C12_StoppedWhenFailReachesFailFast ==
    (props.fail_fast > 0 /\ counts.fail >= props.fail_fast) => ~active

\* C12: with fail_fast = F > 0 and N agents, each of which has at most one
\* _insert_results transaction in flight, the failing results that read fail below
\* F - 1 at snapshot commit without a stop, so fail is at most F + N - 2 while the
\* ensemble is in its index and at most F + N - 1 once it is stopped
C12_FailFastOvershootBounded ==
    props.fail_fast > 0 =>
        /\ active => counts.fail <= props.fail_fast + Cardinality(Agents) - 2
        /\ counts.fail <= props.fail_fast + Cardinality(Agents) - 1

\* two failing results were committed side by side (each read fail = 0) and the
\* ensemble is still in the index with fail = fail_fast
C12_Witness ==
    /\ props.fail_fast = 2
    /\ active
    /\ counts.fail = 2
    /\ Len(results) = 2
    /\ \A a \in Agents : pc[a] = "returned"

\* a transaction bumps the change counter of index x without inserting into the
\* index: _stop_ensemble commits, called by stop_ensemble or by _insert_results
StopCommits(x) ==
    /\ (IF x THEN changes'.sanity > changes.sanity ELSE changes'.active > changes.active)
    /\ ~(IF x THEN sanity' /\ ~sanity ELSE active' /\ ~active)

C14_StoppedSetOnce ==
    [][props.stopped # Absent => props'.stopped = props.stopped]_vars

\* C15: an ensemble in the active index or in the sanity index has its sentinel
\* key all/<EID>, after any create, stop, resume and delete calls with any flag
C15_IndexedEnsembleExists ==
    (active \/ sanity) => all

\* C16: create for an id that is not in all/ sets, in one step, the sentinel,
\* the properties, the entry in the index of its flag, and adds one to the change
\* counter of that index, nothing else; for an id that is in all/, in an index
\* or stopped, it changes no key
C16_CreateAtomicIdempotent ==
    [][\A x \in BOOLEAN, c \in Configs :
          create_ensemble(x, c[1], c[2]) =>
              IF all
              THEN UNCHANGED storeVars
              ELSE /\ all'
                   /\ props' = [max_runs |-> c[1], fail_fast |-> c[2], stopped |-> Absent]
                   /\ get_dir_changes(x)'
                   /\ get_dir_changes(~x)' = get_dir_changes(~x)
                   /\ changes' = IF x THEN [changes EXCEPT !.sanity = @ + 1]
                                       ELSE [changes EXCEPT !.active = @ + 1]
                   /\ UNCHANGED <<counts, incomplete, results, large>>]_vars

\* a sanity ensemble was created; another registry call, create again with the
\* same id among them, left one bump of the sanity change counter
C16_Witness ==
    /\ all /\ sanity /\ ~active
    /\ props = [max_runs |-> 2, fail_fast |-> 2, stopped |-> Absent]
    /\ changes = [active |-> 0, sanity |-> 1]
    /\ userOps = 2

\* C17: resume_ensemble(EID, x) returns true exactly when the entry of index x was
\* absent and is present after it, with one bump of that index's change counter
\* and no other key changed; when the entry is present it returns false and
\* leaves the indexes, the change counters and the properties unchanged
C17_ResumeReturnsTransition ==
    [][\A x \in BOOLEAN :
          resume_ensemble(x) =>
              /\ resume_returns(x) <=>
                     /\ ~get_dir_changes(x)
                     /\ get_dir_changes(x)'
                     /\ changes_of(x)' = changes_of(x) + 1
              /\ resume_returns(x) =>
                     /\ get_dir_changes(~x)' = get_dir_changes(~x)
                     /\ changes_of(~x)' = changes_of(~x)
                     /\ UNCHANGED <<all, props, counts, incomplete, results, large>>
              /\ ~resume_returns(x) => get_dir_changes(x) /\ UNCHANGED storeVars]_vars

\* the ensemble was created, stopped and resumed (three bumps of the active
\* change counter, `stopped` still set), and one more call changed nothing
C17_Witness ==
    /\ all /\ active /\ ~sanity
    /\ props.stopped # Absent
    /\ changes = [active |-> 3, sanity |-> 0]
    /\ userOps = 4

\* C18: once delete_ensemble has committed (the sentinel all/<EID> is gone), no
\* transaction of an agent re-creates a key under all/<EID>: no property and no
\* counter exists without the sentinel
C18_NoKeyUnderAllAfterDelete ==
    ~all => props = NoProps /\ counts = NoCounts

\* every call of an agent has returned: no run is claimed, no result is being
\* inserted, no blob is being written
Quiescent == \A a \in Agents : pc[a] \in {"loop", "exited"}

\* C19: once delete has committed and removed the ensemble from the indexes, and
\* the calls of the agents in flight have returned, no key of the ensemble is left
\* under results/pass, results/fail, results/large, incomplete or all/<EID>
C19_DeletePurgesEverySubspace ==
    (~all /\ ~active /\ ~sanity /\ Quiescent) =>
        /\ results = <<>>
        /\ large = {}
        /\ incomplete = [s \in Seeds |-> NoClaim]
        /\ props = NoProps
        /\ counts = NoCounts

\* C20: every step that puts the ensemble into an index or takes it out also
\* increments the change counter of that index; so a watch set by list_and_watch
\* is ready after every change of the index committed since its list was read,
\* and as long as the watch is not ready the list is the content of the index
C20_IndexChangeWakesWatchers ==
    [][\A x \in BOOLEAN :
          /\ get_dir_changes(x)' # get_dir_changes(x) => changes_of(x)' > changes_of(x)
          /\ (watch[x].set /\ watch'[x] = watch[x] /\ get_dir_changes(x)' # get_dir_changes(x))
                 => is_ready(x)'
          /\ (watch'[x].set /\ ~is_ready(x)') => watch'[x].ensembles = get_dir_changes(x)']_vars

\* an agent listed the active index with the ensemble in it, the ensemble was
\* then removed from the index, and the agent's watch is ready
C20_Witness ==
    /\ watch[FALSE].set
    /\ watch[FALSE].ensembles
    /\ ~active
    /\ is_ready(FALSE)

\* the versionstamps of the rows tail_results is to yield: those of results/fail,
\* and of results/pass unless errors_only
tail_rows ==
    {i \in DOMAIN results : results[i].dir = "fail" \/ ~tail.errors_only}

\* C21: tail_results yields every row of the ensemble (of results/fail only when
\* errors_only) once and in increasing versionstamp order: the records yielded so
\* far are exactly the rows below the cursor, in order, whatever the batches
\* were, and all the rows once the stream has ended
C21_TailYieldsEveryRowOnceInOrder ==
    /\ \A j \in DOMAIN tail.yielded : tail.yielded[j].versionstamp \in tail_rows
    /\ \A j, k \in DOMAIN tail.yielded :
          j < k => tail.yielded[j].versionstamp < tail.yielded[k].versionstamp
    /\ tail.called =>
          {tail.yielded[j].versionstamp : j \in DOMAIN tail.yielded}
              = {i \in tail_rows : i < tail.begin_versionstamp}
    /\ (tail.called /\ ~tail.more) =>
          {tail.yielded[j].versionstamp : j \in DOMAIN tail.yielded} = tail_rows

\* the stream has ended after it yielded a passed and then a failed run, the
\* first of them in a round of its own
C21_Witness ==
    /\ tail.called /\ ~tail.more /\ ~tail.errors_only
    /\ Len(results) = 2
    /\ results[1].dir = "pass" /\ results[2].dir = "fail"
    /\ Len(tail.yielded) = 2
    /\ tail.yielded[1].versionstamp = 1

\* C22: the stream of tail_results ends only in a round that finds the result
\* range exhausted and the ensemble absent from the active index, so never while
\* the ensemble is active; and once the ensemble is out of the active index (and
\* nobody resumes it) the stream ends
C22_TailEndsIffStopped ==
    /\ [][(tail.more /\ ~tail'.more) =>
              /\ ~active
              /\ {tail'.yielded[j].versionstamp : j \in DOMAIN tail'.yielded} = tail_rows]_vars
    /\ (tail.called /\ ~active) ~> ~tail.more

\* the reader was waiting on its watches when a user stopped the ensemble after
\* one result; the stream has ended with that one record
C22_Witness ==
    /\ tail.called /\ ~tail.more /\ ~tail.errors_only
    /\ tail.active
    /\ ~active
    /\ userOps = 1
    /\ counts.ended = 1
    /\ Len(tail.yielded) = 1

\* C23: every record the tail yields for a result whose output was spilled
\* (its row holds the value_in_blob marker) carries the original output, never
\* the marker and never less than the whole blob, also while the agent that
\* wrote the row is still running
C23_SpilledRecordCarriesOutput ==
    \A j \in DOMAIN tail.yielded :
        results[tail.yielded[j].versionstamp].output = "marker"
            => tail.yielded[j].text = "out"

\* the rows of seed s that hold the value_in_blob marker
marker_rows(s) == {i \in rows_of(s) : results[i].output = "marker"}

\* C24 as stated: a blob is written at most once for a seed, whichever
\* finalizers race
C24_AtMostOneBlobPerSeed ==
    [][\A a \in Agents : _insert_blob(a) => run[a].seed \notin large]_vars

\* C24: a blob is written only by a call whose own marker row was committed
\* before, a rejected insert writes no blob, and there is at most one marker row,
\* hence one blob, for every claim of the seed: finalizers of a seed that was
\* claimed once write at most one blob
C24_OneBlobPerClaim ==
    /\ [](\A s \in Seeds :
            /\ s \in large => marker_rows(s) # {}
            /\ Cardinality(marker_rows(s)) <= claimed[s]
            /\ Cardinality({a \in Agents : pc[a] = "blob" /\ run[a].seed = s})
                   <= Cardinality(marker_rows(s)))
    /\ [][\A a \in Agents :
              /\ _insert_blob(a) =>
                    /\ marker_rows(run[a].seed) # {}
                    /\ claimed[run[a].seed] = 1 => run[a].seed \notin large
              /\ InsertStep(a) /\ NothingToInsert(a) =>
                    large' = large /\ pc'[a] # "blob"]_vars

\* two runs have ended: one committed its marker row and wrote its blob, the
\* other, whose claim was gone, was rejected and wrote neither row nor blob
C24_Witness ==
    \E a, b \in Agents :
        /\ pc[a] = "returned" /\ run[a].code \in {0, 1}
        /\ claimed[run[a].seed] = 1
        /\ rows_of(run[a].seed) = {}
        /\ run[a].seed \notin large
        /\ pc[b] = "returned" /\ run[b].code \in {0, 1}
        /\ run[b].seed # run[a].seed
        /\ claimed[run[b].seed] = 1
        /\ run[b].seed \in large
        /\ Cardinality(marker_rows(run[b].seed)) = 1

\* C25: a file written with _insert_blob into an empty subspace and read back
\* with _read_blob comes back identical, whatever its length; every key written
\* holds at most BLOB_KEY_LIMIT bytes (and at least one) and is the offset in the
\* file of the first byte of its value; the reader's assertion never fails
C25_BlobRoundTrip ==
    /\ \A k \in DOMAIN blob.subspace :
          /\ Len(blob.subspace[k]) \in 1..BLOB_KEY_LIMIT
          /\ blob.subspace[k] = SubSeq(blob.file, k + 1, k + Len(blob.subspace[k]))
    /\ ~blob.raised
    /\ blob.read => blob.output = blob.file

\* a file longer than two transactions whose last chunk is short was written
\* and read back
C25_Witness ==
    /\ blob.read
    /\ Len(blob.file) = 2 * BLOB_TRANSACTION_LIMIT + 1
    /\ blob.output = blob.file
    /\ \E i, j \in DOMAIN blob.file : blob.file[i] # blob.file[j]

\* the step stops the ensemble: a stop_ensemble call, or the _stop_ensemble of
\* an _insert_results that found max_runs or fail_fast reached
WholeStop ==
    \/ \E x \in BOOLEAN : stop_ensemble(x)
    \/ \E a \in Agents : InsertEnds(a) /\ (txn[a].stopFF \/ txn[a].stopMR)

\* C26: apart from a stop of the whole ensemble, every step that changes the
\* incomplete entry of a seed either creates it, or is taken by the instance
\* whose id the entry holds (its heartbeat, its insert_results), or is a steal by
\* should_run_ensemble; no other agent's call changes or removes the claim
C26_OnlyClaimantOrStealChangesClaim ==
    [][\A s \in Seeds :
          incomplete'[s] # incomplete[s] /\ incomplete[s].owner # NoOwner =>
              \/ WholeStop
              \/ \E a \in Agents :
                    /\ should_run_steal(a)
                    /\ txn[a].seed = s
              \/ \E a \in Agents :
                    /\ incomplete[s].owner = instanceid(a)
                    /\ run[a].seed = s
                    /\ pc[a] \in {"running", "ins", "blob"}
                    /\ \/ incomplete'[s] = [incomplete[s] EXCEPT !.heartbeat = now]
                       \/ InsertEnds(a) /\ incomplete'[s] = NoClaim]_vars

\* agent a's try_starting_test runs for seed in this step, for the first time
\* or again after an unknown commit
TryStart(a, seed) ==
    \/ try_starting_test(a, seed)
    \/ try_starting_again(a) /\ run[a].seed = seed

\* C27: when try_starting_test finds the ensemble out of its index, or the seed
\* claimed by another instance, run_ensemble returns -3 without starting the
\* test and nothing in the store changes; when it finds the seed claimed by its
\* own instance it returns True, the test starts, and nothing in the store changes
C27_RejectedStartChangesNothing ==
    [][\A a \in Agents, seed \in Seeds :
          TryStart(a, seed) =>
              /\ (\/ ~get_dir_changes(run[a].san)
                  \/ incomplete[seed].owner \notin {NoOwner, instanceid(a)})
                    => /\ pc'[a] = "returned"
                       /\ run'[a].code = -3
                       /\ UNCHANGED storeVars
              /\ (get_dir_changes(run[a].san) /\ incomplete[seed].owner = instanceid(a))
                    => /\ pc'[a] = "running"
                       /\ UNCHANGED storeVars]_vars

\* one agent's run returned -3 for a seed that the other agent holds and runs;
\* one run was started
C27_Witness ==
    \E a, b \in Agents :
        /\ pc[a] = "returned" /\ run[a].code = -3 /\ ~run[a].san
        /\ active
        /\ pc[b] = "running" /\ run[b].seed = run[a].seed
        /\ incomplete[run[a].seed].owner = instanceid(b)
        /\ counts.started = 1
        /\ results = <<>>

\* the insert_results call of agent a's timed-out run (exit code -2) ends in
\* this step: it returns at once, or its transaction commits
TimedOutEnds(a) ==
    \/ pc[a] = "running" /\ pc'[a] = "returned" /\ run'[a].code = -2
    \/ pc[a] = "ins" /\ run[a].code = -2 /\ pc'[a] # "ins"

\* the step appends one row for agent a's run under results/fail with code -2
\* and counts it in ended and fail
TimedOutRowInserted(a) ==
    /\ results' = Append(results, [dir |-> "fail", code |-> -2, seed |-> run[a].seed,
                                    output |-> "out"])
    /\ counts' = [counts EXCEPT !.ended = @ + 1, !.fail = @ + 1]

C29_StopFileAfterEveryZombie ==
    [][\A a \in Agents :
          agent_continue(a) /\ run[a].code \in {-1, -2} => stop_file_exists(a)']_vars

\* C29: after a run of an active ensemble returned -1 or -2 the agent's
\* stop-file exists (created if the path was given and absent; the python
\* executable stands in when no path was given), it stays, and the agent starts
\* nothing more: its only step is the break at the top of the loop. A sanity
\* run that returned -1 or -2 ends the agent at once and leaves the stop-file alone
C29_StopFileEndsAgent ==
    /\ [](\A a \in Agents : stop_file_exists(a) => pc[a] \in {"loop", "exited"} /\ run[a] = NoRun)
    /\ [][\A a \in Agents :
            /\ agent_continue(a) /\ ~run[a].san /\ run[a].code \in {-1, -2} =>
                  /\ stop_file'[a] = IF stop_file[a] = "None" THEN "executable" ELSE "present"
                  /\ pc'[a] = "loop"
            /\ agent_continue(a) /\ run[a].san /\ run[a].code \in {-1, -2} =>
                  /\ stop_file'[a] = stop_file[a]
                  /\ pc'[a] = "exited"
            /\ stop_file_exists(a) =>
                  /\ stop_file'[a] = stop_file[a]
                  /\ counts'.started = counts.started \/ pc'[a] = pc[a]]_vars

\* an agent whose run timed out created its stop-file and left its loop; no
\* failure was logged
C29_Witness ==
    \E a \in Agents :
        /\ pc[a] = "exited"
        /\ stop_file[a] = "present"
        /\ failures = {}
        /\ \E i \in DOMAIN results : results[i].code = -2

\* the entries under /failures written by agent a's host
failures_of(a) == {f \in failures : f.hostname = get_hostname(a)}

\* C30: a sanity run that returns anything but 0 (a failing test, -1, -2 or
\* -3) makes the agent write an entry under /failures, with the time and its
\* hostname, and terminate: it is never seen running again; and an agent that
\* has terminated either found its stop-file or logged a failure
C30_SanityFailureLoggedAndFatal ==
    /\ [](\A a \in Agents : pc[a] = "exited" => stop_file_exists(a) \/ failures_of(a) # {})
    /\ [][\A a \in Agents :
            /\ agent_continue(a) /\ run[a].san /\ run[a].code # 0 =>
                  /\ failures' = failures \cup {[timestamp |-> now, hostname |-> get_hostname(a)]}
                  /\ pc'[a] = "exited"
            /\ agent_continue(a) /\ ~(run[a].san /\ run[a].code # 0) =>
                  /\ failures' = failures
                  /\ pc'[a] = "loop"
            /\ pc[a] = "exited" => pc'[a] = "exited"
            /\ failures \subseteq failures']_vars

\* an agent's sanity run was refused by try_starting_test (-3): the agent has
\* logged the failure and terminated; the other agent's sanity run failed too
C30_Witness ==
    \E a, b \in Agents :
        /\ a # b
        /\ pc[a] = "exited" /\ pc[b] = "exited"
        /\ stop_file[a] = "absent" /\ stop_file[b] = "None"
        /\ failures = {[timestamp |-> 0, hostname |-> get_hostname(a)],
                       [timestamp |-> 0, hostname |-> get_hostname(b)]}
        /\ counts.started = 1
        /\ \E i \in DOMAIN results : results[i].code = 1

\* C31: an agent started with agent_timeout or agent_idle_timeout leaves its
\* loop once no active ensemble remains, after at most as many one-second
\* waits as the timeout has seconds; and the timeout test only ends the loop
\* on an iteration whose list of active ensembles is empty.
TimeoutGiven(a) == timer[a].agent_timeout # -1 \/ timer[a].agent_idle_timeout # -1
TimeoutExit(a) == pc[a] = "loop" /\ ~stop_file_exists(a) /\ pc'[a] = "exited"
C31_TimedOutOnlyWhenIdle ==
    /\ [][\A a \in Agents : TimeoutExit(a) =>
             /\ watch[FALSE].set /\ ~watch[FALSE].ensembles
             /\ timed_out(timer'[a])]_vars
    /\ [][\A a \in Agents :
             agent_idle(a, FALSE) /\ TimeoutGiven(a) /\ pc'[a] = "loop" =>
                /\ ~timed_out(timer'[a])
                /\ timer'[a].since_idle > timer[a].since_idle
                   \/ timer'[a].since_start > timer[a].since_start]_vars
    /\ (~active /\ TimeoutGiven("a1")) ~> pc["a1"] = "exited"
C31_Witness ==
    /\ pc["a1"] = "exited" /\ stop_file["a1"] = "None"
    /\ counts.ended > 0 /\ ~active
    /\ timer["a1"].since_idle = timer["a1"].agent_idle_timeout

\* C33 (as stated): determine_agents_needed returns the delta
\* min(max_agents - current, avail) when avail is positive and
\* max(-current, avail) otherwise, where avail = total_cpus - floor(load + 0.8)
\* - free_cpus, scaled by growth_rate / 100 whenever its absolute value
\* exceeds 100 / growth_rate, for negative deltas as for positive ones; and
\* current + result lies between 0 and max(max_agents, current).
Avail == needed.total_cpus - (needed.load + 8) \div 10 - needed.free_cpus
Delta ==
    IF Avail > 0
    THEN IF needed.max_agents - needed.current_agents <= Avail
         THEN needed.max_agents - needed.current_agents ELSE Avail
    ELSE IF -needed.current_agents >= Avail THEN -needed.current_agents ELSE Avail
Abs(x) == IF x < 0 THEN -x ELSE x
\* r is x * growth_rate / 100 rounded to a nearest integer
Scaled(r, x) == Abs(100 * r - x * needed.growth_rate) <= 50
InBounds ==
    /\ needed.current_agents + needed.agents_needed >= 0
    /\ needed.current_agents + needed.agents_needed <=
          (IF needed.max_agents >= needed.current_agents
           THEN needed.max_agents ELSE needed.current_agents)
C33_DampedBothWays ==
    needed.returned =>
        /\ IF Abs(Delta) * needed.growth_rate > 100
           THEN Scaled(needed.agents_needed, Delta)
           ELSE needed.agents_needed = Delta
        /\ InBounds
\* C33 (amended): only a positive delta above 100 / growth_rate is scaled,
\* and rounded to the nearest integer, a half to the even one; a negative
\* delta is returned as it is.
C33_DampedGrowthOnly ==
    needed.returned =>
        /\ IF Delta * needed.growth_rate > 100
           THEN /\ Scaled(needed.agents_needed, Delta)
                /\ Abs(100 * needed.agents_needed - Delta * needed.growth_rate) = 50
                      => needed.agents_needed % 2 = 0
           ELSE needed.agents_needed = Delta
        /\ InBounds
C33_Witness ==
    /\ needed.returned
    /\ Delta * needed.growth_rate > 100 /\ needed.agents_needed < Delta
    /\ 100 * needed.agents_needed - Delta * needed.growth_rate = -50
C33_WitnessNegative ==
    /\ needed.returned
    /\ Delta < 0 /\ Abs(Delta) * needed.growth_rate > 100 /\ needed.agents_needed = Delta

\* C32: on every tick of the pool manager where the stop-file exists, the
\* free disk space is below its target, or no ensemble is active, no worker is
\* spawned and the target number of workers becomes zero, every current
\* worker being asked to stop; and a tick spawns workers only without
\* stop-file, with enough free disk, with an active ensemble and with a
\* positive number of available CPUs, never after stopping was processed.
AvailableCpus(load) == pool.total_cpus - (load + 8) \div 10 - pool.free_cpus
ShutdownExit == pool.stop_processed /\ pool.pc = "tick" /\ pool'.pc = "exited"
DeathWaitReached == pool.death_cycles * pool.death_wait >= pool.max_death_wait
C34_WitnessLimit ==
    /\ pool.pc = "exited" /\ pool.stop_processed
    /\ pool.children # {} /\ active
    /\ pool.death_cycles * pool.death_wait > pool.max_death_wait

\* C35: a worker thread that has ended, however it ended, is not in the
\* manager's worker set: children_array holds exactly the live worker threads
\* (the one being started is entered right after its start).
LiveThreads == {w \in Workers : pool.threads[w] = "alive"}
BeingRegistered == IF pool.pc = "register" THEN {pool.nextAgentId} ELSE {}
C35_ChildrenAreLiveThreads ==
    /\ pool.children \subseteq LiveThreads
    /\ LiveThreads \ BeingRegistered \subseteq pool.children

\* C36: a steal is refused at commit when the heartbeat key of the seed it
\* read has been written since (by the claimant's heartbeat, a new claim, or
\* the deletion of the claim); so the heartbeat it deletes is more than
\* HeartbeatTimeout old at the commit, and a claimant that heartbeats at
\* least that often keeps its claim; the steal deletes the claim with the
\* oldest heartbeat and leaves every other claim as it is.
HeartbeatWritten(s) ==
    \/ incomplete'[s].heartbeat # incomplete[s].heartbeat
    \/ \E c \in Agents :
          heartbeat_and_check_running(c) /\ run[c].seed = s /\ check_running(c)
C36_StealOnlyStaleOldest ==
    [][\A b \in Agents :
          /\ pc[b] = "steal" /\ ~StealCommits(b) /\ HeartbeatWritten(txn[b].seed)
                => txn'[b].conflict /\ pc'[b] = "steal"
          /\ StealCommits(b) =>
                /\ now - incomplete[txn[b].seed].heartbeat > HeartbeatTimeout
                /\ \A t \in HeartbeatSeeds :
                       incomplete[txn[b].seed].heartbeat <= incomplete[t].heartbeat
                /\ \A t \in Seeds \ {txn[b].seed} : incomplete'[t] = incomplete[t]
                /\ incomplete'[txn[b].seed] = NoClaim]_vars
\* a0's stale claim of seed 1 was stolen while the claim of seed 2, whose
\* owner heartbeats, is still there
C36_Witness ==
    \E a, b \in Agents :
        /\ a # b
        /\ pc[a] = "start" /\ ~run[a].san
        /\ incomplete[1] = NoClaim /\ claimed[1] = 1
        /\ incomplete[2].owner = instanceid(b) /\ pc[b] = "running"
        /\ incomplete[2].heartbeat = now /\ now > HeartbeatTimeout
        /\ counts.started = 2 /\ results = <<>> /\ userOps = 0

\* C37: the agent picks among the runnable ensembles with the weight
\* priority / mean_duration, priority being the `priority` property the
\* ensemble was created with: of two runnable ensembles with the same mean
\* duration and different priority properties the widths differ, in the
\* ratio of the priorities; and the walk always ends with an ensemble of the list.
SameMeanDuration(e, f) ==
    get_ensemble_mean_durations(e)[1] * get_ensemble_mean_durations(f)[2]
        = get_ensemble_mean_durations(f)[1] * get_ensemble_mean_durations(e)[2]
C37_WeightedByPriorityProperty ==
    pick.buckets # <<>> =>
        /\ pick.chosen_ensemble \in DOMAIN pick.ensembles_can_run
        /\ \A i, j \in DOMAIN pick.ensembles_can_run :
              SameMeanDuration(pick.ensembles_can_run[i], pick.ensembles_can_run[j]) =>
                 pick.buckets[i] * pick.ensembles_can_run[j].properties.priority
                    = pick.buckets[j] * pick.ensembles_can_run[i].properties.priority

\* C38: whenever a freshly created ensemble is in the active or the sanity
\* index, every transaction of the upload of its tarball has committed: what
\* an agent that found the ensemble in an index (or in the list its watch
\* woke it for) reads from data/<EID> is the whole tarball, at whatever
\* moment each part is read.
C38_BlobBeforeVisible ==
    /\ active \/ sanity => blob.written /\ blob.offset = Len(blob.file)
    /\ \A x \in BOOLEAN : watch[x].ensembles => blob.written
    /\ ~blob.raised
    /\ blob.read_offset > 0 => blob.written /\ blob.output = slice(blob.file, 0, blob.read_offset)
    /\ blob.read => blob.output = blob.file
C38_Witness ==
    /\ sanity /\ watch[TRUE].ensembles
    /\ blob.read /\ Len(blob.file) > BLOB_TRANSACTION_LIMIT
    /\ blob.output = blob.file

\* C39: while the ensemble is in all/, the seeds claimed in incomplete/<EID>
\* are at most counts.started - counts.ended; a step that adds a claim adds
\* one to started, a step that adds to ended adds one and removes a claim,
\* and no other step adds a claim.
ClaimedSeeds == {s \in Seeds : incomplete[s].owner # NoOwner}
C39_ClaimsWithinStartedMinusEnded ==
    /\ [](all => Cardinality(ClaimedSeeds) <= counts.started - counts.ended)
    /\ [][all /\ all' =>
            /\ ClaimedSeeds' \ ClaimedSeeds # {} =>
                  /\ Cardinality(ClaimedSeeds' \ ClaimedSeeds) = 1
                  /\ ClaimedSeeds \subseteq ClaimedSeeds'
                  /\ counts'.started = counts.started + 1
                  /\ counts'.ended = counts.ended
            /\ counts'.ended # counts.ended =>
                  /\ counts'.ended = counts.ended + 1
                  /\ counts'.started = counts.started
                  /\ ClaimedSeeds' \subseteq ClaimedSeeds
                  /\ \E s \in ClaimedSeeds : s \notin ClaimedSeeds']_vars
\* two runs started, one has ended, the other is still claimed
C39_Witness ==
    /\ all /\ active
    /\ counts.started = 2 /\ counts.ended = 1
    /\ Cardinality(ClaimedSeeds) = 1
    /\ Len(results) = 1

\* C40: for every seed the claim key, its began_at and hostname sub-keys and
\* the heartbeat key are all present or all absent; no step writes a heartbeat
\* for a seed that has no claim after it, the seeds should_run_ensemble reads
\* heartbeats of are claimed seeds, and every dict of show_in_progress has
\* all its fields.
AllFour(c) == c.owner # NoOwner /\ c.began_at /\ c.hostname # NoOwner /\ c.heartbeat # Absent
NoneOfFour(c) == c.owner = NoOwner /\ ~c.began_at /\ c.hostname = NoOwner /\ c.heartbeat = Absent
C40_ClaimKeysTogether ==
    /\ \A s \in Seeds : AllFour(incomplete[s]) \/ NoneOfFour(incomplete[s])
    /\ HeartbeatSeeds = ClaimedSeeds
    /\ DOMAIN show_in_progress = ClaimedSeeds
    /\ \A s \in DOMAIN show_in_progress :
          show_in_progress[s] = {"seed", "heartbeat", "began_at", "hostname", "running_for"}
\* the claim of seed 1 was stolen from an agent that is still running it and
\* heartbeating, while seed 2 is claimed with a newer heartbeat
C40_Witness ==
    /\ \E a \in Agents :
          /\ pc[a] = "running" /\ run[a].seed = 1 /\ run[a].cancelled
    /\ NoneOfFour(incomplete[1])
    /\ AllFour(incomplete[2])
    /\ incomplete[2].heartbeat > 0
====
